---- MODULE Spec2Model ----
(***************************************************************************)
(* Model of PropVest-AI's metrics engine (utils/calculations.ts) as it is  *)
(* used by the PropertyDetail component: the component holds a Property,   *)
(* every render computes metrics = calculateMetrics(property), and         *)
(* updateField replaces one numeric field of the Property.                 *)
(*                                                                         *)
(* JavaScript numbers are modelled as exact rationals extended with the    *)
(* IEEE-754 special values NaN, +Infinity and -Infinity.  Rounding of      *)
(* finite results is not modelled (finite results are exact); the signed   *)
(* zero is not modelled (every zero is +0).                                *)
(***************************************************************************)
EXTENDS Integers, Sequences, FiniteSets, TLC

VARIABLES
    property,   \* the property prop of PropertyDetail
    metrics,    \* the metrics computed by the last render
    display,    \* the metric texts shown by the last render
    pc,         \* "render": a render is pending; "idle": rendered
    assistant,  \* LiveAssistant: its prop, its state and its refs
    world,      \* what LiveAssistant works on: the audio contexts, the
                \* microphone streams, the live sessions, the time
    modal,      \* AddPropertyModal: its prop, its state, its searches
    detail,     \* PropertyDetail: the gallery and the fair-offer refresh
    studio      \* MediaStudio: its state, its handlers' calls in flight

vars ==
    <<property, metrics, display, pc, assistant, world, modal, detail,
      studio>>

\* The variables of PropertyDetail's numbers, and those of the other
\* components of the page.
calcVars == <<property, metrics, display, pc>>

pageVars == <<assistant, world, modal, detail, studio>>

\* What the actions of one component leave alone.
exceptAssistant == <<calcVars, modal, detail, studio>>

exceptModal == <<calcVars, assistant, world, detail, studio>>

exceptDetail == <<assistant, world, modal, studio>>

exceptStudio == <<calcVars, assistant, world, modal, detail>>

----------------------------------------------------------------------------
(* JavaScript number arithmetic                                            *)

RECURSIVE Gcd(_, _)
Gcd(a, b) == IF b = 0 THEN a ELSE Gcd(b, a % b)

Abs(x) == IF x < 0 THEN -x ELSE x

Sign(x) == IF x < 0 THEN -1 ELSE IF x > 0 THEN 1 ELSE 0

\* The number n/d in lowest terms with a positive denominator (d # 0).
Fin(n, d) ==
    LET g == Gcd(Abs(n), Abs(d))
        s == IF d < 0 THEN -1 ELSE 1
    IN  [k |-> "fin", n |-> s * (n \div g), d |-> s * (d \div g)]

Num(i) == [k |-> "fin", n |-> i, d |-> 1]

NaN == [k |-> "nan", n |-> 0, d |-> 1]

\* +Infinity (s = 1) and -Infinity (s = -1).
Inf(s) == [k |-> "inf", n |-> s, d |-> 1]

isNaN(a) == a.k = "nan"

isFinite(a) == a.k = "fin"

IsZero(a) == a.k = "fin" /\ a.n = 0

\* -a
Neg(a) == [a EXCEPT !.n = -a.n]

\* a + b
Add(a, b) ==
    IF a.k = "nan" THEN NaN
    ELSE IF b.k = "nan" THEN NaN
    ELSE IF a.k = "inf" /\ b.k = "inf" THEN (IF a.n = b.n THEN a ELSE NaN)
    ELSE IF a.k = "inf" THEN a
    ELSE IF b.k = "inf" THEN b
    ELSE LET g == Gcd(a.d, b.d)
         IN  Fin(a.n * (b.d \div g) + b.n * (a.d \div g), a.d * (b.d \div g))

\* a - b
Sub(a, b) == Add(a, Neg(b))

\* a * b
Mul(a, b) ==
    IF a.k = "nan" THEN NaN
    ELSE IF b.k = "nan" THEN NaN
    ELSE IF a.k = "inf" \/ b.k = "inf"
         THEN (IF IsZero(a) \/ IsZero(b) THEN NaN ELSE Inf(Sign(a.n) * Sign(b.n)))
    ELSE LET g1 == Gcd(Abs(a.n), b.d)
             g2 == Gcd(Abs(b.n), a.d)
         IN  Fin((a.n \div g1) * (b.n \div g2), (a.d \div g2) * (b.d \div g1))

\* a / b
Div(a, b) ==
    IF a.k = "nan" THEN NaN
    ELSE IF b.k = "nan" THEN NaN
    ELSE IF a.k = "inf"
         THEN (IF b.k = "inf" THEN NaN
               ELSE Inf(a.n * (IF b.n < 0 THEN -1 ELSE 1)))
    ELSE IF b.k = "inf" THEN Num(0)
    ELSE IF b.n = 0 THEN (IF a.n = 0 THEN NaN ELSE Inf(Sign(a.n)))
    ELSE Mul(a, Fin(b.d, b.n))

\* a > b (false when either side is NaN)
Gt(a, b) ==
    IF a.k = "nan" THEN FALSE
    ELSE IF b.k = "nan" THEN FALSE
    ELSE IF a.k = "inf" THEN a.n = 1 /\ ~(b.k = "inf" /\ b.n = 1)
    ELSE IF b.k = "inf" THEN b.n = -1
    ELSE a.n * b.d > b.n * a.d

RECURSIVE IntPow(_, _)
IntPow(b, e) ==
    IF e = 0 THEN 1
    ELSE LET h == IntPow(b, e \div 2)
         IN  IF e % 2 = 0 THEN h * h ELSE h * h * b

\* Math.pow(base, e) for a finite base and an integer exponent e; anything
\* to the power 0 is 1, also NaN.
Pow(base, e) ==
    IF IsZero(e) THEN Num(1)
    ELSE IF isNaN(base) \/ ~isFinite(e) \/ ~isFinite(base) \/ e.d # 1 THEN NaN
    ELSE IF e.n > 0 THEN Fin(IntPow(base.n, e.n), IntPow(base.d, e.n))
    ELSE IF base.n = 0 THEN Inf(1)
    ELSE Fin(IntPow(base.d, -e.n), IntPow(base.n, -e.n))

----------------------------------------------------------------------------
(* Values a Property field can hold besides numbers                        *)

undefined == [k |-> "undefined", n |-> 0, d |-> 1]

null == [k |-> "null", n |-> 0, d |-> 1]

\* !v : undefined, null, NaN and 0 are falsy.
Falsy(v) == v.k \in {"undefined", "null"} \/ isNaN(v) \/ IsZero(v)

\* Mutant: v ?? 0, which replaces only undefined and null.
OrZeroNullish(v) == IF v.k \in {"undefined", "null"} THEN Num(0) ELSE v

\* v || 0
OrZero(v) == IF Falsy(v) THEN Num(0) ELSE v

----------------------------------------------------------------------------
(* Bounds of the input domain                                              *)

MaxPriceHundreds == 1

PriceValues == {Num(100 * i) : i \in -1 .. MaxPriceHundreds}
DownPaymentValues == {Num(0), Num(20), Num(100), Num(120)}
InterestRateValues == {Num(0), Num(1200)}
LoanTermValues == {Num(0), Num(1)}
NightlyRateValues == {Num(0), Num(12)}
OccupancyValues == {Num(50), Num(100)}
PropertyTaxValues == {Num(0), Num(30)}
InsuranceValues == {Num(0), Num(18)}
ManagementFeeValues == {Num(0), Num(25)}
SnowRemovalValues == {Num(1)}
HotTubValues == {undefined, null, NaN, Num(0), Num(2)}
UtilitiesValues == {Num(3)}
MaintenanceValues == {Num(4)}
HoaValues == {Num(5)}
OtherExpensesValues == {Num(0), Num(6)}

\* The numeric fields of the Property interface read by calculateMetrics.
\* The values a field takes, in Init and by updateField.
FieldValues ==
    [price |-> PriceValues,
     downPaymentPercent |-> DownPaymentValues,
     interestRate |-> InterestRateValues,
     loanTermYears |-> LoanTermValues,
     nightlyRate |-> NightlyRateValues,
     occupancyRate |-> OccupancyValues,
     propertyTax |-> PropertyTaxValues,
     insurance |-> InsuranceValues,
     managementFeePercent |-> ManagementFeeValues,
     snowRemoval |-> SnowRemovalValues,
     hotTubMaintenance |-> HotTubValues,
     utilities |-> UtilitiesValues,
     maintenance |-> MaintenanceValues,
     hoa |-> HoaValues,
     otherExpenses |-> OtherExpensesValues]

Fields == DOMAIN FieldValues

----------------------------------------------------------------------------
(* calculateMetrics                                                        *)

downPayment(p) == Mul(p.price, Div(p.downPaymentPercent, Num(100)))

\* Mutant: the subtraction the wrong way round.
loanAmountSwapped(p) ==
    CHOOSE amount \in {Sub(down, p.price) : down \in {downPayment(p)}} : TRUE

\* Each value is computed once and then used, like the const it models:
\* CHOOSE over the one-element set of the results binds the values first.
loanAmount(p) ==
    CHOOSE amount \in {Sub(p.price, down) : down \in {downPayment(p)}} : TRUE

monthlyRate(p) == Div(Div(p.interestRate, Num(100)), Num(12))

numberOfPayments(p) == Mul(p.loanTermYears, Num(12))

\* Mutant: the annuity formula also at rate 0.
monthlyMortgageAlwaysAnnuity(p) ==
    CHOOSE payment \in
        {CHOOSE annuity \in
             {Div(Mul(Mul(loan, rate), pow), Sub(pow, Num(1))) :
                  pow \in {Pow(Add(Num(1), rate), payments)}} : TRUE :
             loan \in {loanAmount(p)},
             rate \in {monthlyRate(p)},
             payments \in {numberOfPayments(p)}} : TRUE

\* Mutant: the annuity formula without the "- 1" of its denominator.
monthlyMortgageNoMinusOne(p) ==
    CHOOSE payment \in
        {IF Gt(rate, Num(0))
         THEN CHOOSE annuity \in
                  {Div(Mul(Mul(loan, rate), pow), pow) :
                       pow \in {Pow(Add(Num(1), rate), payments)}} : TRUE
         ELSE Div(loan, payments) :
             loan \in {loanAmount(p)},
             rate \in {monthlyRate(p)},
             payments \in {numberOfPayments(p)}} : TRUE

\* Mutant: a loan of no payments costs 0 a month.
monthlyMortgageZeroTermGuard(p) ==
    CHOOSE payment \in
        {IF IsZero(payments) THEN Num(0)
         ELSE IF Gt(rate, Num(0))
         THEN CHOOSE annuity \in
                  {Div(Mul(Mul(loan, rate), pow), Sub(pow, Num(1))) :
                       pow \in {Pow(Add(Num(1), rate), payments)}} : TRUE
         ELSE Div(loan, payments) :
             loan \in {loanAmount(p)},
             rate \in {monthlyRate(p)},
             payments \in {numberOfPayments(p)}} : TRUE

monthlyMortgage(p) ==
    CHOOSE payment \in
        {IF Gt(rate, Num(0))
         THEN CHOOSE annuity \in
                  {Div(Mul(Mul(loan, rate), pow), Sub(pow, Num(1))) :
                       pow \in {Pow(Add(Num(1), rate), payments)}} : TRUE
         ELSE Div(loan, payments) :
             loan \in {loanAmount(p)},
             rate \in {monthlyRate(p)},
             payments \in {numberOfPayments(p)}} : TRUE

\* Mutant: months of 30 nights instead of a year of 365.
monthlyIncomeThirtyNights(p) ==
    Mul(Mul(p.nightlyRate, Num(30)), Div(p.occupancyRate, Num(100)))

monthlyIncome(p) ==
    Div(Mul(Mul(p.nightlyRate, Num(365)), Div(p.occupancyRate, Num(100))), Num(12))

managementFee(p) ==
    CHOOSE fee \in
        {Mul(income, Div(p.managementFeePercent, Num(100))) :
             income \in {monthlyIncome(p)}} : TRUE

\* Mutant: the annual tax taken as a monthly amount.
monthlyTaxNotDivided(p) == p.propertyTax

monthlyTax(p) == Div(p.propertyTax, Num(12))

monthlyInsurance(p) == Div(p.insurance, Num(12))

\* Mutant: the mortgage payment counted among the expenses.
monthlyExpensesWithMortgage(p) ==
    CHOOSE expenses \in
        {CHOOSE sum \in
             {Add(Add(Add(Add(Add(
                  firstFive,
                  p.utilities),
                  p.maintenance),
                  p.hoa),
                  p.otherExpenses),
                  mortgage) :
                  firstFive \in
                      {Add(Add(Add(Add(
                           fee,
                           tax),
                           insurance),
                           p.snowRemoval),
                           OrZero(p.hotTubMaintenance))}} : TRUE :
             fee \in {managementFee(p)},
             tax \in {monthlyTax(p)},
             insurance \in {monthlyInsurance(p)},
             mortgage \in {monthlyMortgage(p)}} : TRUE

monthlyExpenses(p) ==
    CHOOSE expenses \in
        {CHOOSE sum \in
             {Add(Add(Add(Add(
                  firstFive,
                  p.utilities),
                  p.maintenance),
                  p.hoa),
                  p.otherExpenses) :
                  firstFive \in
                      {Add(Add(Add(Add(
                           fee,
                           tax),
                           insurance),
                           p.snowRemoval),
                           OrZero(p.hotTubMaintenance))}} : TRUE :
             fee \in {managementFee(p)},
             tax \in {monthlyTax(p)},
             insurance \in {monthlyInsurance(p)}} : TRUE

\* Mutant: the mortgage payment not subtracted.
cashFlowBeforeDebtService(p) ==
    CHOOSE flow \in
        {Sub(income, expenses) :
             income \in {monthlyIncome(p)},
             expenses \in {monthlyExpenses(p)}} : TRUE

cashFlow(p) ==
    CHOOSE flow \in
        {Sub(Sub(income, expenses), mortgage) :
             income \in {monthlyIncome(p)},
             expenses \in {monthlyExpenses(p)},
             mortgage \in {monthlyMortgage(p)}} : TRUE

annualCashFlow(p) ==
    CHOOSE flow \in {Mul(monthly, Num(12)) : monthly \in {cashFlow(p)}} : TRUE

\* Mutant: 3% of the loan instead of 3% of the price.
closingCostsOfLoan(p) ==
    CHOOSE costs \in {Mul(loan, Fin(3, 100)) : loan \in {loanAmount(p)}} : TRUE

closingCosts(p) == Mul(p.price, Fin(3, 100))

totalInvestment(p) ==
    CHOOSE total \in
        {Add(down, costs) :
             down \in {downPayment(p)}, costs \in {closingCosts(p)}} : TRUE

\* Mutant: the division without its guard.
cashOnCashReturnUnguarded(p) ==
    CHOOSE return \in
        {Mul(Div(annual, total), Num(100)) :
             total \in {totalInvestment(p)},
             annual \in {annualCashFlow(p)}} : TRUE

cashOnCashReturn(p) ==
    CHOOSE return \in
        {IF Gt(total, Num(0))
         THEN Mul(Div(annual, total), Num(100))
         ELSE Num(0) :
             total \in {totalInvestment(p)},
             annual \in {annualCashFlow(p)}} : TRUE

annualNOI(p) ==
    CHOOSE noi \in
        {Mul(Sub(income, expenses), Num(12)) :
             income \in {monthlyIncome(p)},
             expenses \in {monthlyExpenses(p)}} : TRUE

\* Mutant: the cash flow after debt service in place of the NOI.
capRateAfterDebtService(p) ==
    CHOOSE rate \in
        {Mul(Div(annual, p.price), Num(100)) :
             annual \in {annualCashFlow(p)}} : TRUE

\* Mutant: guarded like cashOnCashReturn.
capRateGuarded(p) ==
    CHOOSE rate \in
        {IF Gt(p.price, Num(0))
         THEN Mul(Div(noi, p.price), Num(100))
         ELSE Num(0) : noi \in {annualNOI(p)}} : TRUE

capRate(p) ==
    CHOOSE rate \in
        {Mul(Div(noi, p.price), Num(100)) : noi \in {annualNOI(p)}} : TRUE

\* Mutant: totalInvestment left undefined in the returned record.
calculateMetricsWithoutTotal(p) ==
    [monthlyMortgage |-> monthlyMortgage(p),
     monthlyIncome |-> monthlyIncome(p),
     monthlyExpenses |-> monthlyExpenses(p),
     cashFlow |-> cashFlow(p),
     cashOnCashReturn |-> cashOnCashReturn(p),
     capRate |-> capRate(p),
     totalInvestment |-> undefined]

calculateMetrics(p) ==
    [monthlyMortgage |-> monthlyMortgage(p),
     monthlyIncome |-> monthlyIncome(p),
     monthlyExpenses |-> monthlyExpenses(p),
     cashFlow |-> cashFlow(p),
     cashOnCashReturn |-> cashOnCashReturn(p),
     capRate |-> capRate(p),
     totalInvestment |-> totalInvestment(p)]

----------------------------------------------------------------------------
(* formatCurrency and formatPercent.  A text is the sequence of its        *)
(* characters; "U+221E" stands for the infinity sign.                      *)

DigitChar(i) == <<"0", "1", "2", "3", "4", "5", "6", "7", "8", "9">>[i + 1]

\* The decimal digits of the natural number n.
RECURSIVE DigitsOf(_)
DigitsOf(n) ==
    IF n < 10 THEN <<DigitChar(n)>>
    ELSE Append(DigitsOf(n \div 10), DigitChar(n % 10))

\* The digits ds, padded with zeros on the left to at least len digits.
RECURSIVE PadLeft(_, _)
PadLeft(ds, len) == IF Len(ds) >= len THEN ds ELSE PadLeft(<<"0">> \o ds, len)

\* The natural number nearest to a * scale / d, halves rounded up
\* (a >= 0, d > 0).
Rounded(a, d, scale) ==
    LET whole == a \div d
        rest == (a % d) * scale
    IN  whole * scale + (rest \div d) + (IF 2 * (rest % d) >= d THEN 1 ELSE 0)

\* Number.prototype.toFixed(fractionDigits) for fractionDigits > 0 and a
\* value below 10^21 in magnitude.
toFixed(val, fractionDigits) ==
    IF isNaN(val) THEN <<"N", "a", "N">>
    ELSE IF ~isFinite(val)
         THEN (IF val.n < 0 THEN <<"-">> ELSE <<>>)
                  \o <<"I", "n", "f", "i", "n", "i", "t", "y">>
    ELSE LET scale == IntPow(10, fractionDigits)
             n == Rounded(Abs(val.n), val.d, scale)
         IN  (IF val.n < 0 THEN <<"-">> ELSE <<>>)
                 \o DigitsOf(n \div scale)
                 \o <<".">>
                 \o PadLeft(DigitsOf(n % scale), fractionDigits)

\* Mutant: no fixed number of decimals, the value cut to whole percents.
formatPercentWhole(val) ==
    IF isFinite(val)
    THEN (IF val.n < 0 THEN <<"-">> ELSE <<>>)
             \o DigitsOf(Abs(val.n) \div val.d) \o <<"%">>
    ELSE toFixed(val, 2) \o <<"%">>

formatPercent(val) == toFixed(val, 2) \o <<"%">>

\* The digits ds in groups of three, separated by commas.
RECURSIVE Grouped(_)
Grouped(ds) ==
    IF Len(ds) <= 3 THEN ds
    ELSE Grouped(SubSeq(ds, 1, Len(ds) - 3))
             \o <<",">> \o SubSeq(ds, Len(ds) - 2, Len(ds))

\* Mutant: cents shown (the default of the currency style).
formatCurrencyWithCents(val) ==
    IF isFinite(val)
    THEN (IF val.n < 0 THEN <<"-">> ELSE <<>>) \o <<"$">>
             \o Grouped(DigitsOf(Rounded(Abs(val.n), val.d, 100) \div 100))
             \o <<".">>
             \o PadLeft(DigitsOf(Rounded(Abs(val.n), val.d, 100) % 100), 2)
    ELSE IF isNaN(val) THEN <<"$", "N", "a", "N">>
    ELSE (IF val.n < 0 THEN <<"-">> ELSE <<>>) \o <<"$", "U+221E">>

\* Intl.NumberFormat('en-US', {style: 'currency', currency: 'USD',
\* maximumFractionDigits: 0}).format(val)
formatCurrency(val) ==
    IF isNaN(val) THEN <<"$", "N", "a", "N">>
    ELSE (IF val.n < 0 THEN <<"-">> ELSE <<>>)
             \o <<"$">>
             \o (IF isFinite(val)
                 THEN Grouped(DigitsOf(Rounded(Abs(val.n), val.d, 1)))
                 ELSE <<"U+221E">>)

----------------------------------------------------------------------------
(* PropertyDetail: the property prop, and the metrics of the last render   *)

\* The numeric fields of the Property interface read by calculateMetrics.
Property ==
    [price : PriceValues,
     downPaymentPercent : DownPaymentValues,
     interestRate : InterestRateValues,
     loanTermYears : LoanTermValues,
     nightlyRate : NightlyRateValues,
     occupancyRate : OccupancyValues,
     propertyTax : PropertyTaxValues,
     insurance : InsuranceValues,
     managementFeePercent : ManagementFeeValues,
     snowRemoval : SnowRemovalValues,
     hotTubMaintenance : HotTubValues,
     utilities : UtilitiesValues,
     maintenance : MaintenanceValues,
     hoa : HoaValues,
     otherExpenses : OtherExpensesValues]

\* The value of metrics while no render has computed it for the current
\* property.
NoMetrics ==
    [monthlyMortgage |-> undefined,
     monthlyIncome |-> undefined,
     monthlyExpenses |-> undefined,
     cashFlow |-> undefined,
     cashOnCashReturn |-> undefined,
     capRate |-> undefined,
     totalInvestment |-> undefined]

\* The texts PropertyDetail makes of the property and its metrics: the
\* price of the header, the four boxes of the metrics overview, and the
\* income and the costs of the monthly analysis.
Shown(p, m) ==
    [price |-> formatCurrency(p.price),
     cashFlow |-> formatCurrency(m.cashFlow),
     cashOnCashReturn |-> formatPercent(m.cashOnCashReturn),
     capRate |-> formatPercent(m.capRate),
     totalInvestment |-> formatCurrency(m.totalInvestment),
     monthlyIncome |-> formatCurrency(m.monthlyIncome),
     monthlyCosts |-> formatCurrency(Add(m.monthlyExpenses,
                                         m.monthlyMortgage))]

\* Nothing is shown before the render.
NoDisplay ==
    [price |-> <<>>, cashFlow |-> <<>>, cashOnCashReturn |-> <<>>,
     capRate |-> <<>>, totalInvestment |-> <<>>, monthlyIncome |-> <<>>,
     monthlyCosts |-> <<>>]

\* The other components of the page before anything is done with them.
\* LiveAssistant is mounted closed: the state of useState and useRef, a ref
\* of 0 being null.
AssistantMounted ==
    [isOpen |-> FALSE, mounted |-> TRUE,
     isConnected |-> FALSE, isTalking |-> FALSE,
     sessionRef |-> 0, audioContextRef |-> 0, outputContextRef |-> 0,
     streamRef |-> 0, processorRef |-> 0, sourceRef |-> 0,
     nextStartTimeRef |-> 0, sourcesRef |-> {}]

\* No audio context, stream, session or node exists, no startSession has
\* run, no message has arrived, the clock of the output context is at 0.
WorldAtStart ==
    [started |-> 0, calls |-> <<>>,
     inputOpen |-> {}, outputOpen |-> {}, streamsActive |-> {},
     sessionsOpen |-> {}, nodesConnected |-> {},
     arrived |-> 0, decoding |-> {}, interrupting |-> {},
     schedule |-> <<>>, currentTime |-> 0, thrown |-> 0]

\* AddPropertyModal is mounted closed, with the API key of the build set.
ModalMounted ==
    [isOpen |-> FALSE, apiKey |-> TRUE, query |-> <<>>, loading |-> FALSE,
     error |-> <<>>, searches |-> <<>>, added |-> <<>>]

\* PropertyDetail shows the first image; no refresh has been asked for.
\* images is property.images.length; fairOfferRecommendation is the text
\* the property holds, the one it was listed with or the one of a refresh;
\* refresh is the last call of handleRefreshRecommendation, with the
\* property its closure holds.
DetailMounted ==
    [images |-> 2, currentImageIndex |-> 0,
     fairOfferRecommendation |-> "listed", isAnalyzingOffer |-> FALSE,
     refresh |-> [state |-> "none", property |-> <<>>, images |-> 0]]

\* generatePropertyVideo before it is called: where it is, what the last
\* operation it got said, the polls made, and how it ended.
VideoNotCalled ==
    [pc |-> "none", done |-> FALSE, uri |-> FALSE, polls |-> 0,
     failedAt |-> "none", error |-> <<>>]

\* MediaStudio as mounted, in a page with window.aistudio and a build with
\* an API key.  A text is the sequence of its pieces and <<>> stands for
\* null (no text set by the component is empty); settled is how the last
\* call of handleVideoGen ended.
StudioMounted ==
    [aiStudio |-> TRUE, apiKey |-> TRUE,
     prompt |-> <<>>, generatedImage |-> <<>>, imageLoading |-> FALSE,
     imagePc |-> "idle",
     videoUrl |-> <<>>, videoLoading |-> FALSE, videoError |-> <<>>,
     videoPc |-> "idle", settled |-> "none",
     video |-> VideoNotCalled]

AssistantIdle ==
    /\ assistant = AssistantMounted
    /\ world = WorldAtStart

ModalIdle == modal = ModalMounted

DetailIdle == detail = DetailMounted

StudioIdle == studio = StudioMounted

PageInit ==
    /\ AssistantIdle
    /\ ModalIdle
    /\ DetailIdle
    /\ StudioIdle

\* The numbers of PropertyDetail before its first render, for one property.
CalcIdle ==
    /\ property = CHOOSE p \in Property : TRUE
    /\ metrics = NoMetrics
    /\ display = NoDisplay
    /\ pc = "render"

Init ==
    /\ property \in Property
    /\ metrics = NoMetrics
    /\ display = NoDisplay
    /\ pc = "render"
    /\ PageInit

\* Mutant: the default of hotTubMaintenance written into the argument.
RenderDefaultingInPlace ==
    /\ pc = "render"
    /\ \E m \in {calculateMetrics(property)} :
          /\ metrics' = m
          /\ display' = Shown(property, m)
    /\ pc' = "idle"
    /\ property' = [property EXCEPT !.hotTubMaintenance = OrZero(@)]
    /\ UNCHANGED pageVars

\* A render of PropertyDetail: const metrics = calculateMetrics(property),
\* and the texts made from it.
Render ==
    /\ pc = "render"
    /\ \E m \in {calculateMetrics(property)} :
          /\ metrics' = m
          /\ display' = Shown(property, m)
    /\ pc' = "idle"
    /\ UNCHANGED property
    /\ UNCHANGED pageVars

\* updateField(field, value): onUpdate({...property, [field]: value}); the
\* component is rendered again with the new property.
updateField(field, value) ==
    /\ pc = "idle"
    /\ property' = [property EXCEPT ![field] = value]
    /\ metrics' = NoMetrics
    /\ display' = NoDisplay
    /\ pc' = "render"
    /\ UNCHANGED pageVars

\* The sliders of PropertyDetail: the field each one edits, with its min and
\* max.
Sliders ==
    [price |-> [min |-> Num(50000), max |-> Num(2000000)],
     downPaymentPercent |-> [min |-> Num(0), max |-> Num(100)],
     interestRate |-> [min |-> Num(0), max |-> Num(15)],
     nightlyRate |-> [min |-> Num(50), max |-> Num(2000)],
     occupancyRate |-> [min |-> Num(0), max |-> Num(100)]]

\* The fields edited through an ExpenseInput.
ExpenseInputs ==
    {"propertyTax", "insurance", "hoa", "snowRemoval", "hotTubMaintenance",
     "utilities", "maintenance", "managementFeePercent", "otherExpenses"}

\* SliderInput's onChange: a value between the slider's min and max.
SliderInput(field, value) ==
    /\ ~Gt(Sliders[field].min, value)
    /\ ~Gt(value, Sliders[field].max)
    /\ updateField(field, value)

\* What parseFloat(e.target.value) can be in the ExpenseInput of a field: a
\* number among the field's values, or NaN (where the field's values have
\* the 0 it is turned into).
Typed(field) ==
    {v \in FieldValues[field] : isFinite(v)}
        \cup (IF Num(0) \in FieldValues[field] THEN {NaN} ELSE {})

\* ExpenseInput's onChange: onChange(parseFloat(e.target.value) || 0).
ExpenseInput(field, value) == updateField(field, OrZero(value))

Next ==
    \/ Render
    \/ \E field \in DOMAIN Sliders : \E value \in FieldValues[field] :
          SliderInput(field, value)
    \/ \E field \in ExpenseInputs : \E value \in Typed(field) :
          ExpenseInput(field, value)

Spec == Init /\ [][Next]_vars

----------------------------------------------------------------------------
(* Properties of calculateMetrics                                          *)

Rendered == pc = "idle"

ResultFields ==
    {"monthlyMortgage", "monthlyIncome", "monthlyExpenses", "cashFlow",
     "cashOnCashReturn", "capRate", "totalInvestment"}

\* a <= b for finite a and b
Leq(a, b) == isFinite(a) /\ isFinite(b) /\ ~Gt(a, b)

\* cashFlow + monthlyMortgage + monthlyExpenses == monthlyIncome
NettingIdentity ==
    Add(Add(metrics.cashFlow, metrics.monthlyMortgage), metrics.monthlyExpenses)
        = metrics.monthlyIncome

\* The same property bought without a loan (its mortgage payment is 0).
WithoutLoan(p) == [p EXCEPT !.downPaymentPercent = Num(100), !.loanTermYears = Num(1)]

\* C1, as claimed: for all inputs, cashFlow + monthlyMortgage +
\* monthlyExpenses = monthlyIncome.
C1_Original == Rendered => NettingIdentity

\* C1, amended: whenever the returned monthlyMortgage is finite,
\* cashFlow + monthlyMortgage + monthlyExpenses = monthlyIncome; when it is
\* not finite the sum is NaN.  In both cases monthlyExpenses contains no
\* mortgage payment: it is what the same property costs when bought without
\* a loan.
C1_CashFlowIdentity ==
    Rendered =>
        /\ isFinite(metrics.monthlyMortgage) => NettingIdentity
        /\ ~isFinite(metrics.monthlyMortgage) =>
              isNaN(Add(Add(metrics.cashFlow, metrics.monthlyMortgage),
                        metrics.monthlyExpenses))
        /\ monthlyMortgage(WithoutLoan(property)) = Num(0)
        /\ metrics.monthlyExpenses = monthlyExpenses(WithoutLoan(property))

C1_Witness ==
    /\ Rendered
    /\ property.price = Num(100)
    /\ property.downPaymentPercent = Num(20)
    /\ property.interestRate = Num(1200)
    /\ property.loanTermYears = Num(1)
    /\ property.nightlyRate = Num(12)
    /\ isFinite(metrics.monthlyMortgage)
    /\ Gt(metrics.monthlyMortgage, Num(0))
    /\ NettingIdentity

\* C2: cashOnCashReturn is (cashFlow * 12 / totalInvestment) * 100 when
\* totalInvestment > 0 and exactly 0 when totalInvestment is zero or
\* negative, whatever the other fields are.
C2_CashOnCashGuard ==
    Rendered =>
        IF Gt(metrics.totalInvestment, Num(0))
        THEN metrics.cashOnCashReturn =
                 Mul(Div(Mul(metrics.cashFlow, Num(12)), metrics.totalInvestment),
                     Num(100))
        ELSE metrics.cashOnCashReturn = Num(0)

\* totalInvestment is 0 and cashFlow is not finite, and still the return is 0.
C2_Witness ==
    /\ Rendered
    /\ metrics.totalInvestment = Num(0)
    /\ ~isFinite(metrics.cashFlow)
    /\ metrics.cashOnCashReturn = Num(0)

\* Scenario B: zero-rate loan with a 100% down payment.
ScenarioB ==
    [property EXCEPT !.price = Num(120000), !.downPaymentPercent = Num(100),
                     !.interestRate = Num(0), !.loanTermYears = Num(10)]

\* C3: with interestRate = 0 and loanTermYears > 0, monthlyMortgage is
\* loanAmount / (loanTermYears * 12) with loanAmount = price - price *
\* downPaymentPercent / 100; it is 0 when downPaymentPercent = 100
\* (Scenario B).
C3_ZeroInterestStraightLine ==
    Rendered =>
        /\ (IsZero(property.interestRate) /\ Gt(property.loanTermYears, Num(0))) =>
              /\ metrics.monthlyMortgage =
                     Div(Sub(property.price,
                             Div(Mul(property.price, property.downPaymentPercent),
                                 Num(100))),
                         Mul(property.loanTermYears, Num(12)))
              /\ property.downPaymentPercent = Num(100) =>
                     metrics.monthlyMortgage = Num(0)
        /\ monthlyMortgage(ScenarioB) = Num(0)

\* 80 borrowed at 0% over 12 payments: 80 / 12.
C3_Witness ==
    /\ Rendered
    /\ property.price = Num(100)
    /\ property.downPaymentPercent = Num(20)
    /\ property.interestRate = Num(0)
    /\ property.loanTermYears = Num(1)
    /\ metrics.monthlyMortgage = Fin(20, 3)

\* The balance of a loan after k payments of pay at the monthly rate r.
RECURSIVE Balance(_, _, _, _)
Balance(principal, r, pay, k) ==
    IF k = 0 THEN principal
    ELSE CHOOSE balance \in
             {Sub(Mul(before, Add(Num(1), r)), pay) :
                  before \in {Balance(principal, r, pay, k - 1)}} : TRUE

\* C4: with monthlyRate > 0 and numberOfPayments > 0, monthlyMortgage is the
\* standard annuity payment loanAmount * r * (1+r)^n / ((1+r)^n - 1): the
\* payment that brings the balance to 0 after n payments.
C4_AnnuityPayment ==
    LET r == Div(Div(property.interestRate, Num(100)), Num(12))
        n == Mul(property.loanTermYears, Num(12))
        loan == loanAmount(property)
        growth == Pow(Add(Num(1), r), n)
    IN  (Rendered /\ Gt(r, Num(0)) /\ Gt(n, Num(0))) =>
            /\ metrics.monthlyMortgage =
                   Div(Mul(Mul(loan, r), growth), Sub(growth, Num(1)))
            /\ Balance(loan, r, metrics.monthlyMortgage, n.n) = Num(0)

\* 80 borrowed at 100% a month over 12 payments: 80 * 4096 / 4095.
C4_Witness ==
    /\ Rendered
    /\ property.price = Num(100)
    /\ property.downPaymentPercent = Num(20)
    /\ property.interestRate = Num(1200)
    /\ property.loanTermYears = Num(1)
    /\ metrics.monthlyMortgage = Fin(65536, 819)

\* C6: calculateMetrics is total: for every property, degenerate ones
\* included, a render completes and the record has all seven fields, each a
\* number (finite, NaN or an infinity).
C6_Total ==
    Rendered =>
        /\ DOMAIN metrics = ResultFields
        /\ \A f \in ResultFields : metrics[f].k \in {"fin", "nan", "inf"}

\* A degenerate property (price 0, no payments) has been rendered.
C6_Witness ==
    /\ Rendered
    /\ property.price = Num(0)
    /\ property.loanTermYears = Num(0)
    /\ DOMAIN metrics = ResultFields
    /\ isNaN(metrics.monthlyMortgage)

\* C7: capRate is ((monthlyIncome - monthlyExpenses) * 12 / price) * 100
\* with no guard: for price = 0 it is not finite, while cashOnCashReturn
\* for the same input is 0.
C7_CapRateUnguarded ==
    Rendered =>
        /\ metrics.capRate =
               Mul(Div(Mul(Sub(metrics.monthlyIncome, metrics.monthlyExpenses),
                           Num(12)),
                       property.price),
                   Num(100))
        /\ IsZero(property.price) =>
               /\ ~isFinite(metrics.capRate)
               /\ metrics.cashOnCashReturn = Num(0)

C7_Witness ==
    /\ Rendered
    /\ IsZero(property.price)
    /\ metrics.capRate = Inf(1)
    /\ metrics.cashOnCashReturn = Num(0)

InPercentRange(a) == Leq(Num(0), a) /\ Leq(a, Num(100))

\* C8, as claimed: loanAmount >= 0 for every property with
\* downPaymentPercent in [0, 100].
C8_Original ==
    (Rendered /\ InPercentRange(property.downPaymentPercent)) =>
        Leq(Num(0), loanAmount(property))

\* C8, amended: loanAmount >= 0 for every property with price >= 0 and
\* downPaymentPercent in [0, 100].
C8_LoanAmountNonNegative ==
    (/\ Rendered
     /\ Leq(Num(0), property.price)
     /\ InPercentRange(property.downPaymentPercent)) =>
        Leq(Num(0), loanAmount(property))

C8_Witness ==
    /\ Rendered
    /\ property.price = Num(100)
    /\ property.downPaymentPercent = Num(20)
    /\ loanAmount(property) = Num(80)

\* C9: with loanTermYears = 0 a render completes, monthlyMortgage is not
\* finite, for a zero interest rate and for a positive one, and neither is
\* cashFlow.
C9_ZeroTermNonFinite ==
    (Rendered /\ IsZero(property.loanTermYears)) =>
        /\ metrics.monthlyMortgage.k \in {"nan", "inf"}
        /\ metrics.cashFlow.k \in {"nan", "inf"}

\* A positive rate and no payments: the payment is +Infinity, the cash flow
\* -Infinity.
C9_Witness ==
    /\ Rendered
    /\ IsZero(property.loanTermYears)
    /\ property.interestRate = Num(1200)
    /\ metrics.monthlyMortgage = Inf(1)
    /\ metrics.cashFlow = Inf(-1)

\* The same property with one fixed financing.
FixedFinancing(p) ==
    [p EXCEPT !.price = Num(0), !.downPaymentPercent = Num(0),
              !.interestRate = Num(0), !.loanTermYears = Num(0)]

\* C10: monthlyExpenses and monthlyIncome do not depend on price,
\* downPaymentPercent, interestRate or loanTermYears: they are those of the
\* property with these four fields replaced by fixed values, so any two
\* properties that differ only in them have equal monthlyExpenses and
\* monthlyIncome.
C10_ExpensesExcludeDebtService ==
    Rendered =>
        /\ metrics.monthlyExpenses = monthlyExpenses(FixedFinancing(property))
        /\ metrics.monthlyIncome = monthlyIncome(FixedFinancing(property))

\* A property with a positive mortgage payment that differs from the fixed
\* financing in all four fields.
C10_Witness ==
    /\ Rendered
    /\ property.price = Num(100)
    /\ property.downPaymentPercent = Num(20)
    /\ property.interestRate = Num(1200)
    /\ property.loanTermYears = Num(1)
    /\ Gt(metrics.monthlyMortgage, Num(0))
    /\ metrics.monthlyExpenses = monthlyExpenses(FixedFinancing(property))

\* The same property with one fixed loan (price kept).
FixedLoan(p) ==
    [p EXCEPT !.downPaymentPercent = Num(0), !.interestRate = Num(0),
              !.loanTermYears = Num(0)]

\* C11: capRate excludes financing costs: with a non-zero price it does not
\* depend on downPaymentPercent, interestRate or loanTermYears; it is the
\* capRate of the property with these three fields replaced by fixed values,
\* so two properties that differ only in them have the same capRate.
C11_CapRateExcludesFinancing ==
    (Rendered /\ ~IsZero(property.price)) =>
        /\ isFinite(metrics.capRate)
        /\ metrics.capRate = capRate(FixedLoan(property))

\* A financed property (positive mortgage payment) that differs from the
\* fixed loan in all three fields.
C11_Witness ==
    /\ Rendered
    /\ property.price = Num(100)
    /\ property.downPaymentPercent = Num(20)
    /\ property.interestRate = Num(1200)
    /\ property.loanTermYears = Num(1)
    /\ Gt(metrics.monthlyMortgage, Num(0))
    /\ metrics.capRate = capRate(FixedLoan(property))

\* C12: monthlyIncome = nightlyRate * 365 * (occupancyRate / 100) / 12, a
\* function of nightlyRate and occupancyRate alone.
C12_MonthlyIncome ==
    Rendered =>
        metrics.monthlyIncome =
            Div(Mul(Mul(property.nightlyRate, Num(365)), property.occupancyRate),
                Num(1200))

\* 12 a night at 50% occupancy: 12 * 365 * 0.5 / 12 = 182.5.
C12_Witness ==
    /\ Rendered
    /\ property.nightlyRate = Num(12)
    /\ property.occupancyRate = Num(50)
    /\ metrics.monthlyIncome = Fin(365, 2)

\* C13: monthlyExpenses = monthlyIncome * managementFeePercent / 100 +
\* propertyTax / 12 + insurance / 12 + snowRemoval + hotTubMaintenance +
\* utilities + maintenance + hoa + otherExpenses (an absent or falsy
\* hotTubMaintenance counting 0): only the two annual figures are divided by
\* 12, and the management fee is a percentage of the gross monthly income.
C13_MonthlyExpenses ==
    Rendered =>
        metrics.monthlyExpenses =
            Add(Div(Mul(metrics.monthlyIncome, property.managementFeePercent),
                    Num(100)),
            Add(Div(Add(property.propertyTax, property.insurance), Num(12)),
            Add(property.snowRemoval,
            Add(OrZero(property.hotTubMaintenance),
            Add(property.utilities,
            Add(property.maintenance,
            Add(property.hoa, property.otherExpenses)))))))

\* Every cost is non-zero: 25% of 182.5, 30 / 12, 18 / 12 and
\* 1 + 2 + 3 + 4 + 5 + 6.
C13_Witness ==
    /\ Rendered
    /\ metrics.monthlyIncome = Fin(365, 2)
    /\ property.managementFeePercent = Num(25)
    /\ property.propertyTax = Num(30)
    /\ property.insurance = Num(18)
    /\ property.hotTubMaintenance = Num(2)
    /\ property.otherExpenses = Num(6)
    /\ metrics.monthlyExpenses = Fin(565, 8)

\* C14: totalInvestment = price * downPaymentPercent / 100 + price * 0.03,
\* a function of price and downPaymentPercent alone.
C14_TotalInvestment ==
    Rendered =>
        metrics.totalInvestment =
            Div(Mul(property.price, Add(property.downPaymentPercent, Num(3))),
                Num(100))

\* A price of 100 with 20% down: 20 + 3.
C14_Witness ==
    /\ Rendered
    /\ property.price = Num(100)
    /\ property.downPaymentPercent = Num(20)
    /\ metrics.totalInvestment = Num(23)

\* C15: a property whose hotTubMaintenance is absent or falsy (undefined,
\* null, 0, NaN) has the CalculationResult of the same property with
\* hotTubMaintenance = 0.
C15_FalsyHotTubIsZero ==
    (Rendered /\ Falsy(property.hotTubMaintenance)) =>
        metrics = calculateMetrics([property EXCEPT !.hotTubMaintenance = Num(0)])

\* A property without hotTubMaintenance, rendered with finite expenses.
C15_Witness ==
    /\ Rendered
    /\ property.hotTubMaintenance = undefined
    /\ isFinite(metrics.monthlyExpenses)
    /\ metrics = calculateMetrics([property EXCEPT !.hotTubMaintenance = Num(0)])


----------------------------------------------------------------------------
(* Reading a text back                                                      *)

IsDigit(c) == c \in {DigitChar(i) : i \in 0 .. 9}

DigitVal(c) == CHOOSE i \in 0 .. 9 : DigitChar(i) = c

\* The natural number a sequence of digits writes.
RECURSIVE NatOf(_)
NatOf(ds) ==
    IF ds = <<>> THEN 0
    ELSE NatOf(SubSeq(ds, 1, Len(ds) - 1)) * 10 + DigitVal(ds[Len(ds)])

IsNegative(t) == Len(t) > 0 /\ t[1] = "-"

Unsigned(t) == IF IsNegative(t) THEN Tail(t) ELSE t

\* t is an optional minus sign, one or more digits, a point, two digits and
\* a percent sign.
TwoDecimalPercent(t) ==
    LET b == Unsigned(t)
    IN  /\ Len(b) >= 5
        /\ b[Len(b)] = "%"
        /\ b[Len(b) - 3] = "."
        /\ \A i \in (1 .. Len(b) - 1) \ {Len(b) - 3} : IsDigit(b[i])

\* The digits of t, read as a whole number of 1/unit, are within half of
\* 1/unit of the magnitude of the finite number val, and t has a minus sign
\* exactly if val is negative.
Nearest(t, val, unit) ==
    LET a == Abs(val.n)
        k == NatOf(SelectSeq(t, IsDigit)) - (a \div val.d) * unit
    IN  /\ k \in 0 .. unit
        /\ 2 * Abs(k * val.d - unit * (a % val.d)) <= val.d
        /\ IsNegative(t) <=> val.n < 0

\* t is an optional minus sign, a dollar sign and digits in groups of three
\* separated by commas, the first group of one to three digits.
WholeDollars(t) ==
    LET b == Unsigned(t)
        len == Len(b)
    IN  /\ len >= 2
        /\ b[1] = "$"
        /\ \A i \in 2 .. len :
               IF (len - i) % 4 = 3 THEN b[i] = "," /\ i > 2
               ELSE IsDigit(b[i])

NoDecimalPoint(t) == \A i \in 1 .. Len(t) : t[i] # "."

PercentFields == {"cashOnCashReturn", "capRate"}

CurrencyFields == {"cashFlow", "totalInvestment"}

\* What the two formatters make of NaN and of the infinities.
NonFiniteTexts ==
    {formatPercent(v) : v \in {NaN, Inf(1), Inf(-1)}}
        \cup {formatCurrency(v) : v \in {NaN, Inf(1), Inf(-1)}}

\* C18, as the spec states it: where a metric is not finite, the component
\* shows it as unavailable and not the text of the non-finite number.
C18_NonFiniteShownUnavailable ==
    Rendered =>
        \A f \in PercentFields \cup CurrencyFields :
            ~isFinite(metrics[f]) => display[f] \notin NonFiniteTexts

\* Numbers given to formatPercent besides the metrics of the renders.
PercentSamples ==
    {Fin(11, 2), Num(0), Fin(1, 200), Fin(-1, 200), Fin(1, 400), Fin(-1, 400),
     Fin(1999, 200), Fin(-12345, 8), Num(100), Fin(2, 3), Fin(-2, 3)}

\* The text is the two-decimal rendering of val.
IsPercentOf(t, val) ==
    /\ TwoDecimalPercent(t)
    /\ Nearest(t, val, 100)

\* C19, as the spec states it: formatPercent gives two decimals and a
\* percent sign for every number.
C19_Original ==
    Rendered => \A f \in PercentFields : TwoDecimalPercent(display[f])

\* C19, amended: for every finite number formatPercent gives the number
\* rounded to two decimals, followed by a percent sign, and
\* formatPercent(5.5) is "5.50%"; for NaN and the infinities it gives "NaN%",
\* "Infinity%" and "-Infinity%".
C19_FormatPercent ==
    /\ formatPercent(Fin(11, 2)) = <<"5", ".", "5", "0", "%">>
    /\ \A val \in PercentSamples : IsPercentOf(formatPercent(val), val)
    /\ Rendered =>
           \A f \in PercentFields :
               IF isFinite(metrics[f])
               THEN IsPercentOf(display[f], metrics[f])
               ELSE display[f] \in
                        {<<"N", "a", "N", "%">>,
                         <<"I", "n", "f", "i", "n", "i", "t", "y", "%">>,
                         <<"-", "I", "n", "f", "i", "n", "i", "t", "y", "%">>}

\* A render shows a negative cash-on-cash return with a fraction that
\* needed rounding.
C19_Witness ==
    /\ Rendered
    /\ isFinite(metrics.cashOnCashReturn)
    /\ metrics.cashOnCashReturn.n < 0
    /\ 100 % metrics.cashOnCashReturn.d # 0
    /\ IsPercentOf(display.cashOnCashReturn, metrics.cashOnCashReturn)

\* Numbers given to formatCurrency besides the metrics of the renders.
CurrencySamples ==
    {Fin(30864, 25), Num(0), Num(999), Fin(1999, 2), Num(1000), Num(-1000),
     Fin(-1999, 2), Num(450000), Num(2000000), Fin(-24691357, 20),
     Fin(1, 2), Fin(-1, 4), NaN, Inf(1), Inf(-1)}

\* The text is the whole-dollar rendering of val.
IsCurrencyOf(t, val) ==
    /\ NoDecimalPoint(t)
    /\ IF isFinite(val)
       THEN /\ WholeDollars(t)
            /\ Nearest(t, val, 1)
       ELSE t \in {<<"$", "N", "a", "N">>, <<"$", "U+221E">>,
                   <<"-", "$", "U+221E">>}

\* C20: for every number formatCurrency gives a text without decimal places:
\* for a finite number the number rounded to whole dollars, written with a
\* dollar sign and commas between groups of three digits, and for
\* formatCurrency(1234.56) that is "$1,235".
C20_FormatCurrency ==
    /\ formatCurrency(Fin(30864, 25)) = <<"$", "1", ",", "2", "3", "5">>
    /\ \A val \in CurrencySamples : IsCurrencyOf(formatCurrency(val), val)
    /\ Rendered =>
           /\ IsCurrencyOf(display.price, property.price)
           /\ IsCurrencyOf(display.monthlyIncome, metrics.monthlyIncome)
           /\ \A f \in CurrencyFields : IsCurrencyOf(display[f], metrics[f])

\* A render shows a monthly cash flow that had cents to drop.
C20_Witness ==
    /\ Rendered
    /\ isFinite(metrics.cashFlow)
    /\ metrics.cashFlow.d # 1
    /\ WholeDollars(display.cashFlow)

----------------------------------------------------------------------------
(* Scenario A.  The power (1 + monthlyRate)^360 has too many digits for an *)
(* exact fraction, so for the properties of the scenario calculateMetrics  *)
(* is evaluated on enclosures: a pair lo <= hi of fractions with the value *)
(* of the expression between them.  Powers are enclosed in fixed point     *)
(* with eight decimals, rounded down for lo and up for hi.                 *)

\* The fixed-point number 1.
One == IntPow(10, 8)

\* Half * Half = One.
Half == IntPow(10, 4)

\* <<q, r>> with a * b = q * One + r and 0 <= r < One, for naturals a and b
\* with q below 2^31, over the halves (four decimals) of a and b.
MulDivRemOne(a, b) ==
    LET high == (a \div Half) * (b % Half)
        low == (a % Half) * (b \div Half)
        last == (a % Half) * (b % Half)
        rest == ((high % Half) + (low % Half) + (last \div Half)) * Half
                    + (last % Half)
    IN  <<(a \div Half) * (b \div Half) + (high \div Half) + (low \div Half)
              + (rest \div One),
          rest % One>>

\* <<q, r>> with a * b = q * c + r and 0 <= r < c, for naturals a, b and
\* c > 0 with 19 * c below 2^31, over the decimal digits of b.
RECURSIVE MulDivRem(_, _, _)
MulDivRem(a, b, c) ==
    IF b = 0 THEN <<0, 0>>
    ELSE IF c = One THEN MulDivRemOne(a, b)
    ELSE CHOOSE qr \in
             {LET r == 10 * h[2] + (b % 10) * (a % c)
              IN  <<10 * h[1] + (b % 10) * (a \div c) + (r \div c), r % c>>
                  : h \in {MulDivRem(a, b \div 10, c)}} : TRUE

\* a * b / c rounded down, and rounded up.
MulDown(a, b, c) == MulDivRem(a, b, c)[1]

MulUp(a, b, c) ==
    CHOOSE q \in {qr[1] + (IF qr[2] > 0 THEN 1 ELSE 0)
                      : qr \in {MulDivRem(a, b, c)}} : TRUE

\* Math.pow(x, e) for fixed-point x >= 1 and a natural e, rounded down.
RECURSIVE PowDown(_, _)
PowDown(x, e) ==
    IF e = 0 THEN One
    ELSE CHOOSE y \in
             {CHOOSE z \in
                  {IF e % 2 = 0 THEN square ELSE MulDown(square, x, One)
                       : square \in {MulDown(h, h, One)}} : TRUE
                  : h \in {PowDown(x, e \div 2)}} : TRUE

\* Math.pow(x, e) for fixed-point x >= 1 and a natural e, rounded up.
RECURSIVE PowUp(_, _)
PowUp(x, e) ==
    IF e = 0 THEN One
    ELSE CHOOSE y \in
             {CHOOSE z \in
                  {IF e % 2 = 0 THEN square ELSE MulUp(square, x, One)
                       : square \in {MulUp(h, h, One)}} : TRUE
                  : h \in {PowUp(x, e \div 2)}} : TRUE

\* The enclosure of an exactly known value.
Exact(v) == [lo |-> v, hi |-> v]

\* loanAmount * monthlyRate * pow / (pow - 1), the product
\* loanAmount * monthlyRate given exactly and taken in thousandths, pow
\* given by its fixed-point bounds and taken with seven decimals for the
\* quotient.  The quotient pow / (pow - 1) falls as pow grows, so lo is
\* taken at the upper power and hi at the lower one, and each is moved out
\* by a thousandth, far more than the rounding of the floating-point
\* operations.
Annuity(interest, powDown, powUp) ==
    CHOOSE e \in
        {[lo |-> Fin(MulDown(down,
                             (powUp + 9) \div 10,
                             ((powUp + 9) \div 10) - (One \div 10)) - 1, 1000),
          hi |-> Fin(MulUp(up,
                           powDown \div 10,
                           (powDown \div 10) - (One \div 10)) + 1, 1000)] :
             down \in {MulDown(interest.n, 1000, interest.d)},
             up \in {MulUp(interest.n, 1000, interest.d)}} : TRUE

\* Mutant: one payment a year, loanTermYears not multiplied by 12.
monthlyMortgageEnclosureYearlyPayments(p) ==
    CHOOSE e \in
        {CHOOSE annuity \in
             {Annuity(Mul(loan, rate), powDown, powUp) :
                  powDown \in {PowDown(down, p.loanTermYears.n)},
                  powUp \in {PowUp(up, p.loanTermYears.n)}} : TRUE :
             loan \in {loanAmount(p)},
             rate \in {monthlyRate(p)},
             down \in {One + MulDown(monthlyRate(p).n, One,
                                     monthlyRate(p).d)},
             up \in {One + MulUp(monthlyRate(p).n, One,
                                 monthlyRate(p).d)}} : TRUE

\* monthlyMortgage for loanAmount >= 0 and a whole numberOfPayments > 0.
monthlyMortgageEnclosure(p) ==
    CHOOSE e \in
        {IF Gt(rate, Num(0))
         THEN CHOOSE base \in
                  {CHOOSE annuity \in
                       {Annuity(Mul(loan, rate), powDown, powUp) :
                            powDown \in {PowDown(down, payments.n)},
                            powUp \in {PowUp(up, payments.n)}} : TRUE :
                       down \in {One + MulDown(rate.n, One, rate.d)},
                       up \in {One + MulUp(rate.n, One, rate.d)}} : TRUE
         ELSE Exact(Div(loan, payments)) :
             loan \in {loanAmount(p)},
             rate \in {monthlyRate(p)},
             payments \in {numberOfPayments(p)}} : TRUE

\* cashFlow = monthlyIncome - monthlyExpenses - monthlyMortgage
cashFlowEnclosure(p, mortgage) ==
    CHOOSE e \in
        {[lo |-> Sub(Sub(income, expenses), mortgage.hi),
          hi |-> Sub(Sub(income, expenses), mortgage.lo)] :
             income \in {monthlyIncome(p)},
             expenses \in {monthlyExpenses(p)}} : TRUE

\* annualCashFlow = cashFlow * 12
annualCashFlowEnclosure(flow) ==
    [lo |-> Mul(flow.lo, Num(12)), hi |-> Mul(flow.hi, Num(12))]

\* cashOnCashReturn, the quotient taken only for totalInvestment > 0
cashOnCashReturnEnclosure(p, flow) ==
    CHOOSE e \in
        {IF Gt(total, Num(0))
         THEN [lo |-> Mul(Div(annual.lo, total), Num(100)),
               hi |-> Mul(Div(annual.hi, total), Num(100))]
         ELSE Exact(Num(0)) :
             total \in {totalInvestment(p)},
             annual \in {annualCashFlowEnclosure(flow)}} : TRUE

\* monthlyMortgage and cashFlow are computed once, as the consts they are.
calculateMetricsEnclosure(p) ==
    CHOOSE m \in
        {CHOOSE withCashFlow \in
             {[monthlyMortgage |-> mortgage,
               monthlyIncome |-> Exact(monthlyIncome(p)),
               monthlyExpenses |-> Exact(monthlyExpenses(p)),
               cashFlow |-> flow,
               cashOnCashReturn |-> cashOnCashReturnEnclosure(p, flow),
               capRate |-> Exact(capRate(p)),
               totalInvestment |-> Exact(totalInvestment(p))] :
                  flow \in {cashFlowEnclosure(p, mortgage)}} : TRUE :
             mortgage \in {monthlyMortgageEnclosure(p)}} : TRUE

\* Scenario A: the six fields of the scenario, the others as
\* AddPropertyModal fills them in when the search gives nothing.
ScenarioA ==
    [price |-> Num(450000), downPaymentPercent |-> Num(20),
     interestRate |-> Fin(68, 10), loanTermYears |-> Num(30),
     nightlyRate |-> Num(200), occupancyRate |-> Num(60),
     propertyTax |-> Num(5000), insurance |-> Num(1500),
     managementFeePercent |-> Num(25), snowRemoval |-> Num(0),
     hotTubMaintenance |-> Num(0), utilities |-> Num(300),
     maintenance |-> Num(250), hoa |-> Num(0), otherExpenses |-> Num(0)]

\* Scenario A and the properties around it, the six fields of the scenario
\* moved within the ranges of their controls.
ScenarioProperties ==
    {[ScenarioA EXCEPT !.price = price, !.downPaymentPercent = down,
                       !.interestRate = rate, !.loanTermYears = years,
                       !.nightlyRate = nightly, !.occupancyRate = occupancy] :
         price \in {Num(400000), Num(450000), Num(500000)},
         down \in {Num(10), Num(20), Num(25)},
         rate \in {Num(5), Fin(68, 10), Fin(15, 2)},
         years \in {Num(15), Num(30)},
         nightly \in {Num(150), Num(200)},
         occupancy \in {Num(60), Num(70)}}

ScenarioInit ==
    /\ property \in ScenarioProperties
    /\ metrics = NoMetrics
    /\ display = NoDisplay
    /\ pc = "render"
    /\ PageInit

\* const metrics = calculateMetrics(property), on enclosures.
Calculate ==
    /\ pc = "render"
    /\ \E m \in {calculateMetricsEnclosure(property)} : metrics' = m
    /\ pc' = "idle"
    /\ UNCHANGED <<property, display>>
    /\ UNCHANGED pageVars

ScenarioNext == Calculate

ScenarioSpec == ScenarioInit /\ [][ScenarioNext]_vars

\* The enclosure e lies within [low, high).
Between(e, low, high) == ~Gt(low, e.lo) /\ Gt(high, e.hi)

\* C17: for Scenario A calculateMetrics returns monthlyIncome = 3650 and a
\* monthlyMortgage that is 2347 to the dollar, the payment of a loan of
\* 360000 at 6.8 / 1200 a month over 360 payments, with a cashFlow known to
\* within a cent; and for Scenario A and the properties around it cashFlow
\* is monthlyIncome - monthlyExpenses - monthlyMortgage.
C17_ScenarioA ==
    Rendered =>
        /\ property = ScenarioA =>
               /\ metrics.monthlyIncome = Exact(Num(3650))
               /\ loanAmount(property) = Num(360000)
               /\ monthlyRate(property) = Fin(68, 12000)
               /\ numberOfPayments(property) = Num(360)
               /\ Between(metrics.monthlyMortgage,
                          Fin(4693, 2), Fin(4695, 2))
               /\ formatCurrency(metrics.monthlyMortgage.lo)
                      = <<"$", "2", ",", "3", "4", "7">>
               /\ formatCurrency(metrics.monthlyMortgage.hi)
                      = <<"$", "2", ",", "3", "4", "7">>
               /\ Gt(Fin(1, 100),
                     Sub(metrics.cashFlow.hi, metrics.cashFlow.lo))
        /\ metrics.cashFlow.lo
               = Sub(Sub(metrics.monthlyIncome.lo, metrics.monthlyExpenses.lo),
                     metrics.monthlyMortgage.hi)
        /\ metrics.cashFlow.hi
               = Sub(Sub(metrics.monthlyIncome.hi, metrics.monthlyExpenses.hi),
                     metrics.monthlyMortgage.lo)

\* Scenario A has been calculated.
C17_Witness ==
    /\ Rendered
    /\ property = ScenarioA
    /\ Gt(metrics.monthlyMortgage.lo, Num(2346))

----------------------------------------------------------------------------
(* LiveAssistant.  A run of startSession has a number k >= 1; the audio     *)
(* contexts, the microphone stream, the live session and the audio nodes   *)
(* it makes carry the same number, and a ref holds the number of the       *)
(* object it points to, 0 for null.  world.calls[k] is where run k is:     *)
(* "getUserMedia" and "connecting" while it waits, then "open", "closed"   *)
(* or "failed".                                                            *)

MaxSessions == 2

MaxChunks == 2

MaxTime == 3

\* The durations of the decoded audio buffers.
Durations == {1, 2}

Max(x, y) == IF x >= y THEN x ELSE y

\* s.stop() for every source of the set, in the schedule of the output.
Stopped(schedule, sources) ==
    [i \in DOMAIN schedule |->
        IF schedule[i].id \in sources
        THEN [schedule[i] EXCEPT !.stopped = TRUE]
        ELSE schedule[i]]

\* cleanup.  sessionRef.current is the promise ai.live.connect returned
\* (startSession stores sessionPromise), and a promise has no method close:
\* with a session stored the call of l.41 is a TypeError, and nothing after
\* it runs.
cleanup(a, w) ==
    IF a.sessionRef # 0
    THEN [a |-> a, w |-> [w EXCEPT !.thrown = 1]]
    ELSE [a |-> [a EXCEPT !.streamRef = 0, !.processorRef = 0,
                          !.sourceRef = 0, !.audioContextRef = 0,
                          !.outputContextRef = 0, !.sourcesRef = {},
                          !.isConnected = FALSE, !.isTalking = FALSE],
          w |-> [w EXCEPT !.streamsActive = @ \ {a.streamRef},
                          !.nodesConnected =
                              @ \ {a.processorRef, a.sourceRef},
                          !.inputOpen = @ \ {a.audioContextRef},
                          !.outputOpen = @ \ {a.outputContextRef},
                          !.schedule = Stopped(@, a.sourcesRef)]]

\* startSession up to its first await: the two audio contexts are made and
\* stored and getUserMedia is called; or the constructor of the client or of
\* a context throws and the catch sets isConnected to false.
startSession(a, w, made) ==
    IF made
    THEN [a |-> [a EXCEPT !.audioContextRef = w.started + 1,
                          !.outputContextRef = w.started + 1],
          w |-> [w EXCEPT !.started = @ + 1,
                          !.calls = Append(@, "getUserMedia"),
                          !.inputOpen = @ \cup {w.started + 1},
                          !.outputOpen = @ \cup {w.started + 1}]]
    ELSE [a |-> [a EXCEPT !.isConnected = FALSE],
          w |-> [w EXCEPT !.started = @ + 1,
                          !.calls = Append(@, "failed")]]

\* The effect of l.29-37 when the isOpen prop changes: the cleanup the last
\* run of the effect returned, then cleanup() or startSession().  An error
\* thrown in an effect is not caught by the component: React takes the
\* component off the page.
SetIsOpen(open, made) ==
    /\ assistant.mounted
    /\ assistant.isOpen # open
    /\ open => world.started < MaxSessions
    /\ LET before == cleanup([assistant EXCEPT !.isOpen = open], world)
           after == IF open THEN startSession(before.a, before.w, made)
                    ELSE cleanup(before.a, before.w)
       IN  /\ assistant' = [after.a EXCEPT !.mounted = after.w.thrown = 0]
           /\ world' = after.w
    /\ UNCHANGED exceptAssistant

\* The component unmounts: the cleanup the effect returned runs.
Unmount ==
    /\ assistant.mounted
    /\ LET after == cleanup(assistant, world)
       IN  /\ assistant' = [after.a EXCEPT !.mounted = FALSE]
           /\ world' = after.w
    /\ UNCHANGED exceptAssistant

\* getUserMedia of run k gives the stream: l.85-163, the stream stored,
\* ai.live.connect called and its promise stored in sessionRef.
GetUserMediaResolved(k) ==
    /\ k \in DOMAIN world.calls
    /\ world.calls[k] = "getUserMedia"
    /\ assistant' = [assistant EXCEPT !.streamRef = k, !.sessionRef = k]
    /\ world' = [world EXCEPT !.calls[k] = "connecting",
                              !.streamsActive = @ \cup {k}]
    /\ UNCHANGED exceptAssistant

\* getUserMedia of run k is refused: the catch of l.165-168.
GetUserMediaRejected(k) ==
    /\ k \in DOMAIN world.calls
    /\ world.calls[k] = "getUserMedia"
    /\ assistant' = [assistant EXCEPT !.isConnected = FALSE]
    /\ world' = [world EXCEPT !.calls[k] = "failed"]
    /\ UNCHANGED exceptAssistant

\* The session of run k opens: onopen.  The source and the processor are
\* made on the input context of the run; if cleanup has closed that context
\* by now, making them may throw, after setIsConnected(true).
OnOpen(k, nodes) ==
    /\ k \in DOMAIN world.calls
    /\ world.calls[k] = "connecting"
    /\ nodes \/ k \notin world.inputOpen
    /\ assistant' =
           IF nodes
           THEN [assistant EXCEPT !.isConnected = TRUE, !.sourceRef = k,
                                  !.processorRef = k]
           ELSE [assistant EXCEPT !.isConnected = TRUE]
    /\ world' = [world EXCEPT !.calls[k] = "open",
                              !.sessionsOpen = @ \cup {k},
                              !.nodesConnected =
                                  IF nodes THEN @ \cup {k} ELSE @]
    /\ UNCHANGED exceptAssistant

\* The connection of run k fails: onerror logs, nothing is caught.
ConnectFailed(k) ==
    /\ k \in DOMAIN world.calls
    /\ world.calls[k] = "connecting"
    /\ world' = [world EXCEPT !.calls[k] = "failed"]
    /\ UNCHANGED <<assistant, exceptAssistant>>

\* The server ends the session of run k: onclose.
OnClose(k) ==
    /\ k \in DOMAIN world.calls
    /\ world.calls[k] = "open"
    /\ assistant' = [assistant EXCEPT !.isConnected = FALSE]
    /\ world' = [world EXCEPT !.calls[k] = "closed",
                              !.sessionsOpen = @ \ {k}]
    /\ UNCHANGED exceptAssistant

\* The branch of l.146-151: every playing source stopped, the set cleared,
\* the next start time back at 0.
interrupted(a, w) ==
    [a |-> [a EXCEPT !.sourcesRef = {}, !.nextStartTimeRef = 0,
                     !.isTalking = FALSE],
     w |-> [w EXCEPT !.schedule = Stopped(@, a.sourcesRef)]]

\* onmessage for a message with audio, up to the await of l.123: chunk
\* number arrived + 1 goes to decodeAudioData.  The rest of the handler,
\* the interrupted branch included, runs when the decoding is done.
OnMessageAudio(k, isInterrupted) ==
    /\ k \in world.sessionsOpen
    /\ world.arrived < MaxChunks
    /\ assistant' = [assistant EXCEPT !.isTalking = TRUE]
    /\ world' = [world EXCEPT !.arrived = @ + 1,
                              !.decoding = @ \cup {world.arrived + 1},
                              !.interrupting =
                                  IF isInterrupted
                                  THEN @ \cup {world.arrived + 1} ELSE @]
    /\ UNCHANGED exceptAssistant

\* onmessage for a message without audio that says interrupted.
OnMessageInterrupted(k) ==
    /\ k \in world.sessionsOpen
    /\ LET after == interrupted(assistant, world)
       IN  /\ assistant' = after.a
           /\ world' = after.w
    /\ UNCHANGED exceptAssistant

\* l.129-139: the source of the decoded chunk is started at the later of
\* the next start time and the current time, and the next start time moves
\* to its end.
Scheduled(a, w, chunk, duration) ==
    [a |-> [a EXCEPT !.nextStartTimeRef =
                         Max(@, w.currentTime) + duration,
                     !.sourcesRef = @ \cup {chunk}],
     w |-> [w EXCEPT !.decoding = @ \ {chunk},
                     !.schedule =
                         Append(@, [id |-> chunk,
                                    start |-> Max(a.nextStartTimeRef,
                                                  w.currentTime),
                                    end |-> Max(a.nextStartTimeRef,
                                                w.currentTime) + duration,
                                    at |-> w.currentTime,
                                    stopped |-> FALSE,
                                    ended |-> FALSE])]]

\* decodeAudioData of a chunk is done, in whatever order the decodings
\* finish: the chunk is scheduled, and then the interrupted branch runs if
\* its message said so.
DecodeDone(chunk, duration) ==
    /\ chunk \in world.decoding
    /\ LET now == Scheduled(assistant, world, chunk, duration)
           after == IF chunk \in world.interrupting
                    THEN interrupted(now.a, now.w) ELSE now
       IN  /\ assistant' = after.a
           /\ world' = [after.w EXCEPT !.interrupting = @ \ {chunk}]
    /\ UNCHANGED exceptAssistant

\* A source has played to its end or has been stopped: its onended.
OnEnded(i) ==
    /\ i \in DOMAIN world.schedule
    /\ ~world.schedule[i].ended
    /\ world.schedule[i].stopped
           \/ world.schedule[i].end <= world.currentTime
    /\ assistant' =
           [assistant EXCEPT
                !.sourcesRef = @ \ {world.schedule[i].id},
                !.isTalking =
                    IF assistant.sourcesRef \ {world.schedule[i].id} = {}
                    THEN FALSE ELSE @]
    /\ world' = [world EXCEPT !.schedule[i].ended = TRUE]
    /\ UNCHANGED exceptAssistant

\* The clock of the output context moves on.
Tick ==
    /\ world.currentTime < MaxTime
    /\ world' = [world EXCEPT !.currentTime = @ + 1]
    /\ UNCHANGED <<assistant, exceptAssistant>>

LiveInit ==
    /\ CalcIdle
    /\ PageInit

LiveNext ==
    \/ \E open \in BOOLEAN, made \in BOOLEAN : SetIsOpen(open, made)
    \/ Unmount
    \/ \E k \in 1 .. MaxSessions :
           \/ GetUserMediaResolved(k)
           \/ GetUserMediaRejected(k)
           \/ \E nodes \in BOOLEAN : OnOpen(k, nodes)
           \/ ConnectFailed(k)
           \/ OnClose(k)

LiveSpec == LiveInit /\ [][LiveNext]_vars

\* The panel is open and the session of the first run of startSession is
\* open: the state after SetIsOpen(TRUE, TRUE), GetUserMediaResolved(1) and
\* OnOpen(1, TRUE).
PlaybackInit ==
    /\ CalcIdle
    /\ ModalIdle
    /\ DetailIdle
    /\ StudioIdle
    /\ assistant = [AssistantMounted EXCEPT
                        !.isOpen = TRUE, !.isConnected = TRUE,
                        !.sessionRef = 1, !.audioContextRef = 1,
                        !.outputContextRef = 1, !.streamRef = 1,
                        !.processorRef = 1, !.sourceRef = 1]
    /\ world = [WorldAtStart EXCEPT
                    !.started = 1, !.calls = <<"open">>,
                    !.inputOpen = {1}, !.outputOpen = {1},
                    !.streamsActive = {1}, !.sessionsOpen = {1},
                    !.nodesConnected = {1}]

\* The messages of the open session and the playing of their audio.
PlaybackNext ==
    \/ \E isInterrupted \in BOOLEAN : OnMessageAudio(1, isInterrupted)
    \/ OnMessageInterrupted(1)
    \/ \E chunk \in 1 .. MaxChunks, duration \in Durations :
           DecodeDone(chunk, duration)
    \/ \E i \in 1 .. MaxChunks : OnEnded(i)
    \/ Tick

PlaybackSpec == PlaybackInit /\ [][PlaybackNext]_vars

\* Every call of startSession has settled: none waits for getUserMedia or
\* for the connection.
Settled ==
    \A k \in DOMAIN world.calls :
        world.calls[k] \notin {"getUserMedia", "connecting"}

\* C21, as stated: when the panel is closed or unmounted with a session
\* stored in sessionRef, cleanup does not throw and what the refs pointed
\* to is released: the session closed, the stream stopped, the nodes
\* disconnected, both contexts closed, the six refs null, no playing source,
\* isConnected and isTalking false.
C21_CleanupReleasesAll ==
    [][(/\ assistant.mounted /\ assistant.isOpen
        /\ ~assistant'.isOpen \/ ~assistant'.mounted
        /\ assistant.sessionRef # 0)
        => /\ world'.thrown = 0
           /\ assistant.sessionRef \notin world'.sessionsOpen
           /\ assistant.streamRef \notin world'.streamsActive
           /\ assistant.processorRef \notin world'.nodesConnected
           /\ assistant.sourceRef \notin world'.nodesConnected
           /\ assistant.audioContextRef \notin world'.inputOpen
           /\ assistant.outputContextRef \notin world'.outputOpen
           /\ assistant'.sessionRef = 0
           /\ assistant'.audioContextRef = 0
           /\ assistant'.outputContextRef = 0
           /\ assistant'.streamRef = 0
           /\ assistant'.processorRef = 0
           /\ assistant'.sourceRef = 0
           /\ assistant'.sourcesRef = {}
           /\ ~assistant'.isConnected
           /\ ~assistant'.isTalking]_vars

\* C22, as stated: once isOpen is false and every call of startSession has
\* settled, no session is open, no microphone stream is active and no audio
\* context is open.
C22_NothingLeftOpen ==
    (~assistant.isOpen /\ Settled)
        => /\ world.sessionsOpen = {}
           /\ world.streamsActive = {}
           /\ world.inputOpen \cup world.outputOpen = {}

\* C23, as stated: every chunk starts no earlier than the time it is
\* scheduled at and no earlier than the end of the chunk scheduled before
\* it (unless that one was stopped), no two chunks that were not stopped
\* overlap, a chunk that arrived later never starts before one that arrived
\* earlier, and an interrupted message stops and clears the playing sources
\* and sets the next start time to 0.
C23_GaplessInArrivalOrder ==
    /\ [](/\ \A i \in DOMAIN world.schedule :
                 world.schedule[i].start >= world.schedule[i].at
          /\ \A i \in DOMAIN world.schedule :
                 (i > 1 /\ ~world.schedule[i - 1].stopped)
                     => world.schedule[i].start >= world.schedule[i - 1].end
          /\ \A i, j \in DOMAIN world.schedule :
                 (i # j /\ ~world.schedule[i].stopped
                        /\ ~world.schedule[j].stopped)
                     => \/ world.schedule[i].end <= world.schedule[j].start
                        \/ world.schedule[j].end <= world.schedule[i].start
          /\ \A i, j \in DOMAIN world.schedule :
                 world.schedule[i].id < world.schedule[j].id
                     => world.schedule[i].start <= world.schedule[j].start)
    /\ [][OnMessageInterrupted(1)
              => /\ assistant'.sourcesRef = {}
                 /\ assistant'.nextStartTimeRef = 0
                 /\ \A i \in DOMAIN world.schedule :
                        world.schedule[i].id \in assistant.sourcesRef
                            => world'.schedule[i].stopped]_vars

----------------------------------------------------------------------------
(* AddPropertyModal and fetchPropertyListing                               *)
(*                                                                         *)
(* A text is the sequence of its pieces: a query is <<>> when empty and    *)
(* begins with the piece "http" when it is a link; the text of a response  *)
(* is made of braces, markdown fences, the pieces of a listing and other   *)
(* words.                                                                  *)

MaxSearches == 2

Queries == {<<>>, <<"12 Elm St">>, <<"http", "s://zillow.com/homes/1">>}

\* query.startsWith('http')
StartsWithHttp(text) == Len(text) > 0 /\ text[1] = "http"

\* An image address: what it starts with and its length.
GoodUrl == [starts |-> "http", length |-> 40]

ShortUrl == [starts |-> "http", length |-> 8]

OtherUrl == [starts |-> "ftp:", length |-> 40]

\* The key/value pairs a response can hold, by the piece that stands for
\* each: "price" stands for "price": 300000, and so on.
Listed ==
    [address |-> <<"5 Oak Ave">>,
     price |-> Num(300000),
     nightlyRate |-> Num(0),
     propertyTax |-> Num(4200),
     images |-> <<GoodUrl, ShortUrl, OtherUrl>>]

\* response.text of the answers of the model: none, an object in a fenced
\* block, an object inside prose, an empty object, prose without an object,
\* an object cut short, the braces the wrong way round, and null.
Texts ==
    {<<>>,
     <<"fence json", "{", "address", "price", "images", "}", "fence">>,
     <<"Here", "{", "price", "nightlyRate", "propertyTax", "}", "Done">>,
     <<"{", "}">>,
     <<"Sorry">>,
     <<"{", "price">>,
     <<"}", "null", "{">>,
     <<"null">>}

\* What generateContent does: it rejects, or gives a response with a text.
Responses ==
    {[k |-> "rejected", text |-> <<>>]}
        \cup {[k |-> "resolved", text |-> text] : text \in Texts}

Fences == {"fence json", "fence"}

\* l.174: the markdown fences, with or without json after them, taken out.
WithoutFences(text) == SelectSeq(text, LAMBDA piece : piece \notin Fences)

\* text.indexOf(piece) and text.lastIndexOf(piece), counting from 1; 0 for
\* the -1 of a piece that does not occur.
indexOf(text, piece) ==
    IF \E i \in DOMAIN text : text[i] = piece
    THEN CHOOSE i \in DOMAIN text :
             /\ text[i] = piece
             /\ \A j \in DOMAIN text : text[j] = piece => i <= j
    ELSE 0

lastIndexOf(text, piece) ==
    IF \E i \in DOMAIN text : text[i] = piece
    THEN CHOOSE i \in DOMAIN text :
             /\ text[i] = piece
             /\ \A j \in DOMAIN text : text[j] = piece => i >= j
    ELSE 0

\* text.substring(from, to) for from and to counted from 0: the arguments
\* are swapped when from > to.
substring(text, from, to) ==
    IF from <= to THEN SubSeq(text, from + 1, to)
    ELSE SubSeq(text, to + 1, from)

\* l.176-180: what lies between the first { and the last }.
Braced(text) ==
    LET jsonStart == indexOf(text, "{") - 1
        jsonEnd == lastIndexOf(text, "}") - 1
    IN  IF jsonStart # -1 /\ jsonEnd # -1
        THEN substring(text, jsonStart, jsonEnd + 1)
        ELSE text

\* JSON.parse: an object of listed pairs, null, or a SyntaxError.
JSONparse(text) ==
    IF text = <<"null">> THEN [k |-> "null", value |-> <<>>]
    ELSE IF /\ Len(text) >= 2
            /\ text[1] = "{"
            /\ text[Len(text)] = "}"
            /\ \A i \in 2 .. Len(text) - 1 : text[i] \in DOMAIN Listed
    THEN [k |-> "object",
          value |-> [f \in {text[i] : i \in 2 .. Len(text) - 1}
                        |-> Listed[f]]]
    ELSE [k |-> "SyntaxError", value |-> <<>>]

\* The record of the catch of fetchPropertyListing (l.186-202).
Fallback(query) ==
    [address |-> IF StartsWithHttp(query) THEN <<"New Property Listing">>
                 ELSE query,
     price |-> Num(0), bedrooms |-> Num(0), bathrooms |-> Num(0),
     sqft |-> Num(0), propertyTax |-> Num(0), hoa |-> Num(0),
     nightlyRate |-> Num(0), occupancyRate |-> Num(0),
     insurance |-> Num(0), snowRemoval |-> Num(0),
     hotTubMaintenance |-> Num(0), utilities |-> Num(0),
     fairOfferRecommendation |->
         <<"Could not automatically fetch details.">>,
     images |-> <<>>]

\* fetchPropertyListing(query), given whether the build has an API key and
\* what generateContent does.  getAI() is called before the try: the constructor of
\* the client throws without a key, and the promise is rejected.  Inside
\* the try every error ends in the fallback.
fetchPropertyListing(query, apiKey, response) ==
    IF ~apiKey THEN [k |-> "rejected", failed |-> TRUE, value |-> <<>>]
    ELSE IF response.k = "rejected"
    THEN [k |-> "object", failed |-> TRUE, value |-> Fallback(query)]
    ELSE LET text == IF response.text = <<>> THEN <<"{", "}">>
                     ELSE response.text
             parsed == JSONparse(Braced(WithoutFences(text)))
         IN  IF parsed.k = "SyntaxError"
             THEN [k |-> "object", failed |-> TRUE,
                   value |-> Fallback(query)]
             ELSE [k |-> parsed.k, failed |-> FALSE,
                   value |-> parsed.value]

\* data.field || otherwise, for a number and for a text.
OrNumber(data, field, otherwise) ==
    IF field \in DOMAIN data /\ ~Falsy(data[field]) THEN data[field]
    ELSE otherwise

OrText(data, field, otherwise) ==
    IF field \in DOMAIN data /\ data[field] # <<>> THEN data[field]
    ELSE otherwise

\* l.28-34: the image addresses kept.
Images(data) ==
    SelectSeq(OrText(data, "images", <<>>),
              LAMBDA url : /\ url.length > 10
                           /\ url.starts \in {"http", "data:"})

\* l.36-63: the property handed to onAdd (its id, the reading of the
\* clock, is left out).
newProperty(data, query) ==
    [address |-> OrText(data, "address", query),
     price |-> OrNumber(data, "price", Num(450000)),
     images |-> Images(data),
     bedrooms |-> OrNumber(data, "bedrooms", Num(3)),
     bathrooms |-> OrNumber(data, "bathrooms", Num(2)),
     sqft |-> OrNumber(data, "sqft", Num(1500)),
     downPaymentPercent |-> Num(20),
     interestRate |-> Fin(68, 10),
     loanTermYears |-> Num(30),
     nightlyRate |-> OrNumber(data, "nightlyRate", Num(200)),
     occupancyRate |-> OrNumber(data, "occupancyRate", Num(60)),
     propertyTax |-> OrNumber(data, "propertyTax", Num(5000)),
     insurance |-> OrNumber(data, "insurance", Num(1500)),
     managementFeePercent |-> Num(25),
     snowRemoval |-> OrNumber(data, "snowRemoval", Num(0)),
     hotTubMaintenance |-> OrNumber(data, "hotTubMaintenance", Num(0)),
     utilities |-> OrNumber(data, "utilities", Num(300)),
     maintenance |-> Num(250),
     hoa |-> OrNumber(data, "hoa", Num(0)),
     otherExpenses |-> Num(0),
     fairOfferRecommendation |->
         OrText(data, "fairOfferRecommendation", <<>>)]

\* handleSearch after its await: the try from l.28, the catch and the
\* finally, for what fetchPropertyListing gave.  Reading data.images of
\* null is a TypeError, caught like a rejection.
Continued(m, i, fetched) ==
    IF fetched.k = "object"
    THEN [m EXCEPT
              !.searches[i].state = "added",
              !.searches[i].failed = fetched.failed,
              !.searches[i].data = fetched.value,
              !.added = Append(@, [search |-> i,
                                   property |->
                                       newProperty(fetched.value,
                                                   m.searches[i].query)]),
              !.isOpen = FALSE,
              !.query = <<>>,
              !.loading = FALSE]
    ELSE [m EXCEPT
              !.searches[i].state = "error",
              !.searches[i].failed = fetched.failed,
              !.searches[i].rejected = fetched.k = "rejected",
              !.error = <<"Failed to fetch property details.">>,
              !.loading = FALSE]

\* handleSearch to its await.  Without an API key the promise of
\* fetchPropertyListing is rejected at once and the catch runs before any
\* other event.
handleSearch ==
    IF modal.query = <<>> THEN UNCHANGED modal
    ELSE /\ Len(modal.searches) < MaxSearches
         /\ LET i == Len(modal.searches) + 1
                begun == [modal EXCEPT
                              !.loading = TRUE,
                              !.error = <<>>,
                              !.searches =
                                  Append(@, [query |-> modal.query,
                                             state |-> "pending",
                                             failed |-> FALSE,
                                             rejected |-> FALSE,
                                             data |-> <<>>])]
            IN  modal' =
                    IF modal.apiKey THEN begun
                    ELSE Continued(begun, i,
                             fetchPropertyListing(
                                 modal.query, FALSE,
                                 CHOOSE r \in Responses : TRUE))

\* The parent opens the modal, and closes it (onClose of the X button).
OpenModal ==
    /\ ~modal.isOpen
    /\ modal' = [modal EXCEPT !.isOpen = TRUE]
    /\ UNCHANGED exceptModal

CloseModal ==
    /\ modal.isOpen
    /\ modal' = [modal EXCEPT !.isOpen = FALSE]
    /\ UNCHANGED exceptModal

\* onChange of the input.
SetQuery(query) ==
    /\ modal.isOpen
    /\ modal' = [modal EXCEPT !.query = query]
    /\ UNCHANGED exceptModal

\* The button 'Fetch Property', disabled={loading || !query}.
ClickFetch ==
    /\ modal.isOpen
    /\ ~(modal.loading \/ modal.query = <<>>)
    /\ handleSearch
    /\ UNCHANGED exceptModal

\* onKeyDown of the input: e.key === 'Enter' && handleSearch().
PressEnter ==
    /\ modal.isOpen
    /\ handleSearch
    /\ UNCHANGED exceptModal

\* generateContent of search i settles and fetchPropertyListing and
\* handleSearch run to their ends.
FetchSettled(i, response) ==
    /\ i \in DOMAIN modal.searches
    /\ modal.searches[i].state = "pending"
    /\ modal' = Continued(modal, i,
                    fetchPropertyListing(modal.searches[i].query,
                                         modal.apiKey, response))
    /\ UNCHANGED exceptModal

\* The build has an API key or has none.
ModalInit ==
    /\ CalcIdle
    /\ AssistantIdle
    /\ DetailIdle
    /\ StudioIdle
    /\ \E apiKey \in BOOLEAN :
           modal = [ModalMounted EXCEPT !.apiKey = apiKey]

ModalNext ==
    \/ OpenModal
    \/ CloseModal
    \/ \E query \in Queries : SetQuery(query)
    \/ ClickFetch
    \/ PressEnter
    \/ \E i \in 1 .. MaxSearches, response \in Responses :
           FetchSettled(i, response)

ModalSpec == ModalInit /\ [][ModalNext]_vars

InFlight == {i \in DOMAIN modal.searches : modal.searches[i].state = "pending"}

\* C24, as stated: at most one request of fetchPropertyListing is in flight
\* at a time, and while loading is true no search is started.
C24_OneSearchInFlight ==
    /\ [](Cardinality(InFlight) <= 1)
    /\ [][modal.loading
              => Len(modal'.searches) = Len(modal.searches)]_vars

\* C28, as stated: fetchPropertyListing never rejects; a search whose fetch
\* failed got the fallback record (numbers 0, no image, the address the
\* query or 'New Property Listing' for a link), and handleSearch called
\* onAdd once for it with the defaults, not setting its error message.
C28_FetchNeverRejects ==
    \A i \in DOMAIN modal.searches :
        LET search == modal.searches[i]
        IN  /\ ~search.rejected
            /\ (search.failed /\ search.state # "pending")
                   => /\ search.state = "added"
                      /\ search.data = Fallback(search.query)
                      /\ \A f \in DOMAIN search.data \ 
                                  {"address", "images",
                                   "fairOfferRecommendation"} :
                             search.data[f] = Num(0)
                      /\ search.data.images = <<>>
                      /\ Cardinality({a \in DOMAIN modal.added :
                                          modal.added[a].search = i}) = 1
                      /\ \A a \in DOMAIN modal.added :
                             modal.added[a].search = i
                                 => LET p == modal.added[a].property
                                    IN  /\ p.price = Num(450000)
                                        /\ p.nightlyRate = Num(200)
                                        /\ p.occupancyRate = Num(60)
                                        /\ p.propertyTax = Num(5000)
                                        /\ p.insurance = Num(1500)
                                        /\ p.loanTermYears = Num(30)

----------------------------------------------------------------------------
(* PropertyDetail: the gallery and the refresh of the recommendation       *)

MaxImages == 2

\* The properties the parent shows in PropertyDetail.
Listings ==
    LET p == CHOOSE q \in Property : TRUE
    IN  {p, [p EXCEPT !.propertyTax = Num(30)]}

\* The field edited while a refresh is in flight.
EditedBySlider == {"occupancyRate"}

\* The property prop changes to another property, with its own images:
\* the component stays mounted and keeps its state.  (What the parent does
\* with the onUpdate of a refresh begun for a property no longer shown is
\* not part of PropertyDetail: the prop changes while no refresh is in
\* flight.)
SetProperty(p, images) ==
    /\ pc = "idle"
    /\ detail.refresh.state # "pending"
    /\ property' = p
    /\ metrics' = NoMetrics
    /\ display' = NoDisplay
    /\ pc' = "render"
    /\ detail' = [detail EXCEPT !.images = images,
                                 !.fairOfferRecommendation = "listed"]
    /\ UNCHANGED exceptDetail

\* nextImage and prevImage.
nextImage ==
    /\ detail' =
           IF detail.images = 0 THEN detail
           ELSE [detail EXCEPT
                     !.currentImageIndex = (@ + 1) % detail.images]
    /\ UNCHANGED <<calcVars, exceptDetail>>

prevImage ==
    /\ detail' =
           IF detail.images = 0 THEN detail
           ELSE [detail EXCEPT
                     !.currentImageIndex =
                         (@ - 1 + detail.images) % detail.images]
    /\ UNCHANGED <<calcVars, exceptDetail>>

\* The thumbnail of image i of the gallery: setCurrentImageIndex(i).
ThumbnailClick(i) ==
    /\ i < detail.images
    /\ detail' = [detail EXCEPT !.currentImageIndex = i]
    /\ UNCHANGED <<calcVars, exceptDetail>>

\* handleRefreshRecommendation to its await: the handler keeps the property
\* of the render it was made in.  The button is disabled while
\* isAnalyzingOffer.
ClickRefresh ==
    /\ pc = "idle"
    /\ ~detail.isAnalyzingOffer
    /\ detail' = [detail EXCEPT
                      !.isAnalyzingOffer = TRUE,
                      !.refresh = [state |-> "pending",
                                   property |-> property,
                                   images |-> detail.images]]
    /\ UNCHANGED <<calcVars, exceptDetail>>

\* analyzeFairOffer gives its text:
\* onUpdate({ ...property, fairOfferRecommendation: rec }) with the
\* property the handler kept, then the finally.
RefreshResolved ==
    /\ pc = "idle"
    /\ detail.refresh.state = "pending"
    /\ property' = detail.refresh.property
    /\ metrics' = NoMetrics
    /\ display' = NoDisplay
    /\ pc' = "render"
    /\ detail' = [detail EXCEPT
                      !.images = detail.refresh.images,
                      !.fairOfferRecommendation = "refreshed",
                      !.isAnalyzingOffer = FALSE,
                      !.refresh.state = "done"]
    /\ UNCHANGED exceptDetail

\* analyzeFairOffer rejects: the catch and the finally.
RefreshRejected ==
    /\ detail.refresh.state = "pending"
    /\ detail' = [detail EXCEPT
                      !.isAnalyzingOffer = FALSE,
                      !.refresh.state = "failed"]
    /\ UNCHANGED <<calcVars, exceptDetail>>

DetailInit ==
    /\ CalcIdle
    /\ AssistantIdle
    /\ ModalIdle
    /\ StudioIdle
    /\ \E images \in 0 .. MaxImages :
           detail = [DetailMounted EXCEPT !.images = images]

DetailNext ==
    \/ Render
    \/ \E field \in EditedBySlider : \E value \in FieldValues[field] :
           SliderInput(field, value)
    \/ \E p \in Listings, images \in 0 .. MaxImages : SetProperty(p, images)
    \/ nextImage
    \/ prevImage
    \/ \E i \in 0 .. MaxImages - 1 : ThumbnailClick(i)
    \/ ClickRefresh
    \/ RefreshResolved
    \/ RefreshRejected

DetailSpec == DetailInit /\ [][DetailNext]_vars

\* C25, as stated: the step in which a refresh completes changes only the
\* fairOfferRecommendation of the stored property: the fields edited while
\* the request was in flight keep their values.
C25_RefreshKeepsEdits ==
    [][(detail.refresh.state = "pending" /\ detail'.refresh.state = "done")
           => /\ property' = property
              /\ detail'.images = detail.images]_vars

\* C26, as stated: with images, currentImageIndex is a valid index; nextImage
\* and prevImage wrap around at the ends and do nothing without images.
C26_ValidImageIndex ==
    /\ [](detail.images > 0
              => detail.currentImageIndex \in 0 .. detail.images - 1)
    /\ [][nextImage
              => /\ detail.images = 0 => detail' = detail
                 /\ detail.currentImageIndex = detail.images - 1
                        => detail'.currentImageIndex = 0]_vars
    /\ [][prevImage
              => /\ detail.images = 0 => detail' = detail
                 /\ (detail.images > 0 /\ detail.currentImageIndex = 0)
                        => detail'.currentImageIndex = detail.images - 1]_vars

----------------------------------------------------------------------------
(* MediaStudio and generatePropertyVideo                                   *)

MaxPolls == 2

\* The errors a rejected call gives: the API's "Requested entity was not
\* found.", another Error, and a value without a message (the event of
\* reader.onerror).
Errors ==
    {[message |-> <<"Requested entity was not found", ".">>],
     [message |-> <<"Failed to fetch">>],
     [message |-> <<>>]}

\* What an awaited call does: it rejects with an error, or resolves (with a
\* boolean for the calls of window.aistudio).
Rejections == {[k |-> "rejected", value |-> FALSE, e |-> e] : e \in Errors}

Settlements ==
    Rejections
        \cup {[k |-> "resolved", value |-> TRUE, e |-> [message |-> <<>>]]}

Answers ==
    Rejections
        \cup {[k |-> "resolved", value |-> v, e |-> [message |-> <<>>]] :
                  v \in BOOLEAN}

\* What generateVideos and getVideosOperation resolve with.
Operations == [done : BOOLEAN, uri : BOOLEAN]

Prompts == {<<>>, <<"add a pool">>}

\* e.message?.includes(piece)
includes(message, piece) == \E i \in DOMAIN message : message[i] = piece

\* "Video generation failed. " + e.message
Failed(e) ==
    <<"Video generation failed. ">>
        \o (IF e.message = <<>> THEN <<"undefined">> ELSE e.message)

\* The finally of handleVideoGen.
Finally(s, outcome) ==
    [s EXCEPT !.videoLoading = FALSE, !.videoPc = "idle",
              !.settled = outcome]

\* The catch of handleVideoGen up to its await, or to the end.
Caught(s, e) ==
    IF includes(e.message, "Requested entity was not found") /\ s.aiStudio
    THEN [s EXCEPT !.videoPc = "reselectKey"]
    ELSE Finally([s EXCEPT !.videoError = Failed(e)], "failure")

\* generatePropertyVideo throws (its catch rethrows), and handleVideoGen
\* catches.
VideoThrown(s, e, at) ==
    Caught([s EXCEPT !.video.pc = "thrown", !.video.failedAt = at,
                     !.video.error = e.message], e)

\* Mutant: a finished operation gives a URL whether or not it has a URI.
FinishedWithoutCheck(s, operation) ==
    [s EXCEPT !.video.pc = "fetch"]

\* l.314-315: the URI of the finished operation.
Finished(s, operation) ==
    IF ~operation.uri
    THEN VideoThrown(s, [message |-> <<"Video generation failed">>], "uri")
    ELSE [s EXCEPT !.video.pc = "fetch"]

\* while (!operation.done), for the operation just received.
Looped(s, operation) ==
    LET got == [s EXCEPT !.video.done = operation.done,
                         !.video.uri = operation.uri]
    IN  IF ~operation.done THEN [got EXCEPT !.video.pc = "wait"]
        ELSE Finished(got, operation)

\* generatePropertyVideo is called: getAI() throws without an API key,
\* before the try; else generateVideos is awaited.
Called(s) ==
    LET begun == [s EXCEPT !.videoPc = "generatePropertyVideo",
                           !.video = VideoNotCalled]
    IN  IF ~s.apiKey
        THEN VideoThrown(begun, [message |-> <<"An API Key must be set">>],
                         "client")
        ELSE [begun EXCEPT !.video.pc = "generateVideos"]

\* The button of the video tab, shown when !videoUrl && !videoLoading:
\* handleVideoGen to its first await.
ClickGenerateVideo ==
    /\ studio.videoUrl = <<>>
    /\ ~studio.videoLoading
    /\ studio.videoPc = "idle"
    /\ studio' = [studio EXCEPT
                      !.videoLoading = TRUE,
                      !.videoError = <<>>,
                      !.settled = "none",
                      !.videoPc = IF studio.aiStudio
                                  THEN "hasSelectedApiKey"
                                  ELSE "getBase64FromUrl"]
    /\ UNCHANGED exceptStudio

\* await aiStudio.hasSelectedApiKey()
HasSelectedApiKeySettled(answer) ==
    /\ studio.videoPc = "hasSelectedApiKey"
    /\ studio' =
           IF answer.k = "rejected" THEN Caught(studio, answer.e)
           ELSE IF answer.value
           THEN [studio EXCEPT !.videoPc = "getBase64FromUrl"]
           ELSE [studio EXCEPT !.videoPc = "openSelectKey"]
    /\ UNCHANGED exceptStudio

\* await aiStudio.openSelectKey() of l.60
OpenSelectKeySettled(answer) ==
    /\ studio.videoPc = "openSelectKey"
    /\ studio' =
           IF answer.k = "rejected" THEN Caught(studio, answer.e)
           ELSE IF answer.value
           THEN [studio EXCEPT !.videoPc = "getBase64FromUrl"]
           ELSE Caught(studio, [message |-> <<"API Key not selected">>])
    /\ UNCHANGED exceptStudio

\* await getBase64FromUrl(imageUrl) of handleVideoGen
VideoBase64Settled(settlement) ==
    /\ studio.videoPc = "getBase64FromUrl"
    /\ studio' =
           IF settlement.k = "rejected" THEN Caught(studio, settlement.e)
           ELSE Called(studio)
    /\ UNCHANGED exceptStudio

\* await ai.models.generateVideos(...)
GenerateVideosSettled(settlement, operation) ==
    /\ studio.video.pc = "generateVideos"
    /\ studio' =
           IF settlement.k = "rejected"
           THEN VideoThrown(studio, settlement.e, "generateVideos")
           ELSE Looped(studio, operation)
    /\ UNCHANGED exceptStudio

\* The timer of 5 seconds fires and getVideosOperation is called.
TimerFired ==
    /\ studio.video.pc = "wait"
    /\ studio.video.polls < MaxPolls
    /\ studio' = [studio EXCEPT !.video.pc = "getVideosOperation",
                                !.video.polls = @ + 1]
    /\ UNCHANGED exceptStudio

\* await ai.operations.getVideosOperation(...)
GetVideosOperationSettled(settlement, operation) ==
    /\ studio.video.pc = "getVideosOperation"
    /\ studio' =
           IF settlement.k = "rejected"
           THEN VideoThrown(studio, settlement.e, "getVideosOperation")
           ELSE Looped(studio, operation)
    /\ UNCHANGED exceptStudio

\* await fetch(videoUri + key)
VideoFetched(settlement) ==
    /\ studio.video.pc = "fetch"
    /\ studio' =
           IF settlement.k = "rejected"
           THEN VideoThrown(studio, settlement.e, "fetch")
           ELSE [studio EXCEPT !.video.pc = "blob"]
    /\ UNCHANGED exceptStudio

\* await videoRes.blob(), the return of the object URL, and
\* setVideoUrl(resultUrl) with the finally of handleVideoGen.
VideoBlobRead(settlement) ==
    /\ studio.video.pc = "blob"
    /\ studio' =
           IF settlement.k = "rejected"
           THEN VideoThrown(studio, settlement.e, "blob")
           ELSE Finally([studio EXCEPT !.video.pc = "returned",
                                       !.videoUrl = <<"blob:video">>],
                        "success")
    /\ UNCHANGED exceptStudio

\* await aiStudio.openSelectKey() of the catch (l.71): resolved, the
\* message of l.72 is set; rejected, the error leaves the catch.  The
\* finally runs in both cases.
ReselectKeySettled(answer) ==
    /\ studio.videoPc = "reselectKey"
    /\ studio' =
           IF answer.k = "rejected" THEN Finally(studio, "failure")
           ELSE Finally([studio EXCEPT
                             !.videoError =
                                 <<"Key refreshed. Please try again.">>],
                        "failure")
    /\ UNCHANGED exceptStudio

\* onChange of the prompt.
SetPrompt(prompt) ==
    /\ studio' = [studio EXCEPT !.prompt = prompt]
    /\ UNCHANGED exceptStudio

\* handleImageEdit to its first await.
handleImageEdit(s) ==
    IF s.prompt = <<>> THEN s
    ELSE [s EXCEPT !.imageLoading = TRUE, !.imagePc = "getBase64FromUrl"]

\* The catch (the alert) and the finally of handleImageEdit.
ImageSettled(s) == [s EXCEPT !.imageLoading = FALSE, !.imagePc = "idle"]

\* The button Generate, disabled={imageLoading || !prompt}.
ClickGenerateImage ==
    /\ ~(studio.imageLoading \/ studio.prompt = <<>>)
    /\ studio' = handleImageEdit(studio)
    /\ UNCHANGED exceptStudio

\* await getBase64FromUrl(imageUrl) of handleImageEdit; editPropertyImage,
\* called next, throws at once without an API key.
ImageBase64Settled(settlement) ==
    /\ studio.imagePc = "getBase64FromUrl"
    /\ studio' =
           IF settlement.k = "rejected" \/ ~studio.apiKey
           THEN ImageSettled(studio)
           ELSE [studio EXCEPT !.imagePc = "editPropertyImage"]
    /\ UNCHANGED exceptStudio

\* await editPropertyImage(base64, prompt)
EditPropertyImageSettled(settlement) ==
    /\ studio.imagePc = "editPropertyImage"
    /\ studio' =
           IF settlement.k = "rejected" THEN ImageSettled(studio)
           ELSE ImageSettled([studio EXCEPT
                                  !.generatedImage = <<"data:image/png">>])
    /\ UNCHANGED exceptStudio

StudioInit ==
    /\ CalcIdle
    /\ AssistantIdle
    /\ ModalIdle
    /\ DetailIdle
    /\ \E aiStudio \in BOOLEAN, apiKey \in BOOLEAN :
           studio = [StudioMounted EXCEPT !.aiStudio = aiStudio,
                                          !.apiKey = apiKey]

\* The steps of generatePropertyVideo: the settling of the calls it awaits
\* and its timer.
VideoStep ==
    \/ \E settlement \in Settlements, operation \in Operations :
           \/ GenerateVideosSettled(settlement, operation)
           \/ GetVideosOperationSettled(settlement, operation)
    \/ TimerFired
    \/ \E settlement \in Settlements :
           \/ VideoFetched(settlement)
           \/ VideoBlobRead(settlement)

StudioNext ==
    \/ ClickGenerateVideo
    \/ \E answer \in Answers :
           \/ HasSelectedApiKeySettled(answer)
           \/ OpenSelectKeySettled(answer)
           \/ ReselectKeySettled(answer)
    \/ \E settlement \in Settlements : VideoBase64Settled(settlement)
    \/ VideoStep
    \/ \E prompt \in Prompts : SetPrompt(prompt)
    \/ ClickGenerateImage
    \/ \E settlement \in Settlements :
           \/ ImageBase64Settled(settlement)
           \/ EditPropertyImageSettled(settlement)

\* A call that is awaited settles and a timer that is set fires: the steps
\* of generatePropertyVideo are taken when they can be.
StudioSpec == StudioInit /\ [][StudioNext]_vars /\ WF_vars(VideoStep)

\* generatePropertyVideo has returned or thrown.
Terminated == studio.video.pc \in {"returned", "thrown"}

\* What C27 says of the polling itself: a URL is returned only for an
\* operation that is done and carries a URI; while the function waits or
\* polls the last operation was not done; after each wait it polls again; a
\* done operation without a URI ends in the throw of 'Video generation
\* failed'; and once an operation is done the function terminates.
PollsUntilDone ==
    /\ [](studio.video.pc = "returned"
              => studio.video.done /\ studio.video.uri)
    /\ [](studio.video.pc \in {"wait", "getVideosOperation"}
              => ~studio.video.done)
    /\ [][(studio.video.pc = "wait" /\ studio'.video.pc # "wait")
              => /\ studio'.video.pc = "getVideosOperation"
                 /\ studio'.video.polls = studio.video.polls + 1]_vars
    /\ []((Terminated /\ studio.video.done /\ ~studio.video.uri)
              => /\ studio.video.pc = "thrown"
                 /\ studio.video.failedAt = "uri"
                 /\ studio.video.error = <<"Video generation failed">>)
    /\ [](studio.video.failedAt = "uri"
              => studio.video.done /\ ~studio.video.uri)
    /\ (studio.video.done ~> Terminated)

\* C27, as stated: the polling is as above, and the function terminates only
\* if the operation reported done or a poll call failed.
C27_Original ==
    /\ PollsUntilDone
    /\ [](Terminated
              => \/ studio.video.done
                 \/ studio.video.failedAt = "getVideosOperation")

\* C27, amended: the polling is as above, and the function terminates only
\* if the operation reported done, or a poll call failed, or the call of
\* generateVideos failed, or the client could not be made (no API key).
C27_PollsUntilDone ==
    /\ PollsUntilDone
    /\ [](Terminated
              => \/ studio.video.done
                 \/ studio.video.failedAt
                        \in {"getVideosOperation", "generateVideos",
                             "client"})

\* A URL is returned after the operation was polled.
C27_Witness ==
    /\ studio.video.pc = "returned"
    /\ studio.video.polls >= 1
    /\ studio.videoUrl # <<>>

\* C29, as stated: when handleVideoGen has settled videoLoading is false; on
\* success videoUrl is the URL and videoError null; on a failure videoUrl is
\* unchanged (null, the button being shown only then) and videoError is a
\* message; handleImageEdit does nothing with an empty prompt and leaves
\* imageLoading false when it has settled.
C29_VideoGenSettles ==
    /\ (studio.videoPc = "idle" /\ studio.settled # "none")
           => /\ ~studio.videoLoading
              /\ studio.settled = "success"
                     => /\ studio.videoUrl = <<"blob:video">>
                        /\ studio.videoError = <<>>
              /\ studio.settled = "failure"
                     => /\ studio.videoUrl = <<>>
                        /\ studio.videoError # <<>>
    /\ handleImageEdit([studio EXCEPT !.prompt = <<>>])
           = [studio EXCEPT !.prompt = <<>>]
    /\ studio.imagePc = "idle" => ~studio.imageLoading

============================================================================
